---- MODULE Spec2Model ----
(***************************************************************************)
(* Usage-data aggregation of the GLM Coding Plan status line:              *)
(* the disk cache, the endpoint resolution, the three concurrent HTTPS     *)
(* requests with their timers, the join and the merge into one snapshot.   *)
(*                                                                         *)
(* Conventions of the translation                                          *)
(*  - a JavaScript object is a record; a property that is undefined (or    *)
(*    dropped by JSON.stringify) is a field missing from the record;       *)
(*  - T | null / T | undefined is a sequence of length 0 or 1;             *)
(*  - a string that the code searches with includes() is a sequence of     *)
(*    tokens, the empty string being << >>;                                *)
(*  - a fractional number is an integer count of tenths;                   *)
(*  - a number rendered by toFixed(2) is [units, cents];                   *)
(*  - times are epoch milliseconds, local time being UTC.                  *)
(***************************************************************************)
EXTENDS Integers, Sequences, FiniteSets, TLC

VARIABLES
    now,        \* Date.now(), epoch ms
    file,       \* content of CACHE_FILE
    origin,     \* history: who wrote the current content of CACHE_FILE
    calls,      \* number of invocations of the script started so far
    pc,         \* per invocation: position of the script
    cfg,        \* per invocation: authToken and baseUrl (module-level constants)
    req,        \* per invocation and endpoint: the httpsGet call and its helper
    result,     \* per invocation: what fetchUsageData returned (<< >> before that)
    log,        \* history, per invocation: the events of the fetchUsageData call
    seen,       \* history, per invocation: what the call found at its cache check
    probe       \* one call of a function taken on its own (see PureSpec)

vars == <<now, file, origin, calls, pc, cfg, req, result, log, seen, probe>>

----------------------------------------------------------------------------
(* Program constants *)

CACHE_DURATION == 5000
REQUEST_TIMEOUT == 2000

SecondMs == 1000
MinuteMs == 60 * SecondMs
HourMs == 60 * MinuteMs
DayMs == 24 * HourMs

(* Bounds of the model *)

TickMs == 1000      \* the clock advances in steps of TickMs
MaxTicks == 6       \* ... at most MaxTicks times
MaxCalls == 2       \* invocations of the script per behaviour

StartTime == DayMs - 2 * TickMs          \* two ticks before local midnight
EndTime == StartTime + MaxTicks * TickMs

Endpoints == {"quota", "model", "tool"}

----------------------------------------------------------------------------
(* Small helpers *)

Range(s) == {s[i] : i \in DOMAIN s}

EmptyRec == [k \in {} |-> 0]

Min(a, b) == IF a < b THEN a ELSE b

\* Math.round of a number given in tenths: floor(x + 0.5)
Round10(p) == (p + 5) \div 10

\* String(n).padStart(2, "0") for 0 <= n <= 99, as its two digits
Pad2(n) == <<n \div 10, n % 10>>

----------------------------------------------------------------------------
(* Configuration and endpoint resolution (module level)                    *)
(* A base URL is [scheme, host, rest]: its text is scheme // host rest.    *)

EmptyUrl == [scheme |-> "", host |-> << >>, rest |-> << >>]

BaseUrls ==
    { EmptyUrl,
      [scheme |-> "https:", host |-> <<"api.z.ai">>, rest |-> <<"/api/anthropic">>],
      [scheme |-> "https:", host |-> <<"example.com">>, rest |-> << >>],
      [scheme |-> "", host |-> <<"api.z.ai">>, rest |-> << >>] }

AuthTokens == {<< >>, <<"token">>}

Configs == [authToken : AuthTokens, baseUrl : BaseUrls]

SUPPORTED_DOMAINS == <<"api.z.ai", "open.bigmodel.cn", "dev.bigmodel.cn">>

\* !baseUrl
UrlIsEmpty(u) == u.scheme = "" /\ u.host = << >> /\ u.rest = << >>

\* baseUrl.includes(domain)
UrlIncludes(u, domain) == domain \in Range(u.host) \cup Range(u.rest)

\* SUPPORTED_DOMAINS.some((domain) => baseUrl.includes(domain))
IsSupported(u) == \E i \in DOMAIN SUPPORTED_DOMAINS : UrlIncludes(u, SUPPORTED_DOMAINS[i])

\* new URL(baseUrl) throws on a text without a scheme
UrlParses(u) == u.scheme # "" /\ u.host # << >>

\* the module-level block "if (baseUrl) { ... }" throws (uncaught) when it
\* reaches new URL(baseUrl) with a text that does not parse
ModuleInitThrows(c) ==
    /\ ~UrlIsEmpty(c.baseUrl)
    /\ IsSupported(c.baseUrl)
    /\ ~UrlParses(c.baseUrl)

\* modelUsageUrl / toolUsageUrl / quotaLimitUrl after the module-level block:
\* << >> is null, otherwise the three URLs under `${protocol}//${host}`
ResolveUrls(c) ==
    IF ~UrlIsEmpty(c.baseUrl) /\ IsSupported(c.baseUrl) /\ UrlParses(c.baseUrl)
    THEN LET baseDomain == [scheme |-> c.baseUrl.scheme, host |-> c.baseUrl.host]
         IN  << [ modelUsageUrl |-> [base |-> baseDomain, path |-> "/api/monitor/usage/model-usage"],
                  toolUsageUrl  |-> [base |-> baseDomain, path |-> "/api/monitor/usage/tool-usage"],
                  quotaLimitUrl |-> [base |-> baseDomain, path |-> "/api/monitor/usage/quota/limit"] ] >>
    ELSE << >>

\* buildApiConfig(baseUrl, authToken) of the API client module: null (<< >>)
\* without a base URL or a token, and when buildApiUrls throws (unsupported
\* domain, or new URL(baseUrl) on a text that does not parse)
DEFAULT_TIMEOUT == 2000

buildApiConfig(baseUrl, authToken) ==
    IF UrlIsEmpty(baseUrl) \/ authToken = << >> THEN << >>
    ELSE IF ~IsSupported(baseUrl) THEN << >>
    ELSE IF ~UrlParses(baseUrl) THEN << >>
    ELSE LET baseDomain == [scheme |-> baseUrl.scheme, host |-> baseUrl.host]
         IN  << [ quotaLimitUrl |-> [base |-> baseDomain, path |-> "/api/monitor/usage/quota/limit"],
                  modelUsageUrl |-> [base |-> baseDomain, path |-> "/api/monitor/usage/model-usage"],
                  toolUsageUrl  |-> [base |-> baseDomain, path |-> "/api/monitor/usage/tool-usage"],
                  authToken |-> authToken,
                  timeout |-> DEFAULT_TIMEOUT ] >>

\* mutant: the environment check forgets the resolved endpoint
ConfigAbsent_NoUrlCheck(c) ==
    \/ c.authToken = << >>
    \/ UrlIsEmpty(c.baseUrl)

\* the environment check of fetchUsageData: !authToken || !baseUrl || !modelUsageUrl
ConfigAbsent(c) ==
    \/ c.authToken = << >>
    \/ UrlIsEmpty(c.baseUrl)
    \/ ResolveUrls(c) = << >>

----------------------------------------------------------------------------
(* Cache file                                                              *)
(* file is [kind |-> "absent"], [kind |-> "garbage"] (not JSON),            *)
(* [kind |-> "unreadable"] (readFileSync throws) or                        *)
(* [kind |-> "json", value |-> the parsed document].                       *)

Absent == [kind |-> "absent"]
Garbage == [kind |-> "garbage"]
Unreadable == [kind |-> "unreadable"]
Json(v) == [kind |-> "json", value |-> v]

\* mutant: loadCache without its try/catch, a file that does not parse surfaces
\* as the "loading" snapshot
loadCache_Surfacing(f) ==
    IF f.kind = "json" THEN <<f.value>>
    ELSE IF f.kind = "absent" THEN << >>
    ELSE <<[data |-> [error |-> "loading"], timestamp |-> StartTime]>>

\* loadCache(): the parsed document, or null (a read or parse error is swallowed)
loadCache(f) == IF f.kind = "json" THEN <<f.value>> ELSE << >>

\* JSON.stringify(data) written to CACHE_FILE: the snapshot itself is the document
saveCacheDoc(data) == Json(data)

\* isCacheValid(cache) at time t
isCacheValid(cache, t) ==
    IF cache = << >> THEN FALSE
    ELSE IF ~("timestamp" \in DOMAIN cache[1]) \/ cache[1].timestamp = 0 THEN FALSE
    ELSE t - cache[1].timestamp < CACHE_DURATION

\* shouldUseCache() at time t: cache.data when the cache is valid, else null
\* (cache.data of a document without a data property is undefined)
shouldUseCache(f, t) ==
    LET cache == loadCache(f)
    IN  IF cache # << >> /\ isCacheValid(cache, t)
        THEN IF "data" \in DOMAIN cache[1] THEN <<cache[1].data>> ELSE << >>
        ELSE << >>

----------------------------------------------------------------------------
(* HTTP client: how one httpsGet promise settles                           *)

Resolved(v) == [status |-> "fulfilled", value |-> v]
Rejected(why) == [status |-> "rejected", reason |-> why]

\* mutant: the body is parsed before the status is looked at
httpsGetOnEnd_ParseFirst(statusCode, text) ==
    IF text = << >> THEN Rejected("Invalid JSON response")
    ELSE IF statusCode # 200 THEN Rejected("HTTP status")
    ELSE Resolved(text[1])

\* res.on("end"): statusCode and the collected text (<<v>> when the text parses
\* as JSON to v, << >> when it does not parse)
httpsGetOnEnd(statusCode, text) ==
    IF statusCode # 200 THEN Rejected("HTTP status")
    ELSE IF text = << >> THEN Rejected("Invalid JSON response")
    ELSE Resolved(text[1])

\* req.on("error", reject)
httpsGetOnError == Rejected("request error")

\* the setTimeout callback: req.destroy(); reject(new Error("Request timeout"))
httpsGetOnTimeout == Rejected("Request timeout")

----------------------------------------------------------------------------
(* Model name mapper *)

ANTHROPIC_DEFAULT_OPUS_MODEL == <<"GLM-4.7">>
ANTHROPIC_DEFAULT_SONNET_MODEL == <<"GLM-4.7">>
ANTHROPIC_DEFAULT_HAIKU_MODEL == <<"GLM-4.5-Air">>

\* mutant: the markers are looked for in the order Haiku, Sonnet, Opus
mapModelName_HaikuFirst(modelName) ==
    IF modelName = << >> THEN modelName
    ELSE IF "Haiku" \in Range(modelName) THEN ANTHROPIC_DEFAULT_HAIKU_MODEL
    ELSE IF "Sonnet" \in Range(modelName) THEN ANTHROPIC_DEFAULT_SONNET_MODEL
    ELSE IF "Opus" \in Range(modelName) THEN ANTHROPIC_DEFAULT_OPUS_MODEL
    ELSE modelName

\* a name is the sequence of the words it is made of; includes(marker) is the
\* presence of the marker among them
mapModelName(modelName) ==
    IF modelName = << >> THEN modelName
    ELSE IF "Opus" \in Range(modelName) THEN ANTHROPIC_DEFAULT_OPUS_MODEL
    ELSE IF "Sonnet" \in Range(modelName) THEN ANTHROPIC_DEFAULT_SONNET_MODEL
    ELSE IF "Haiku" \in Range(modelName) THEN ANTHROPIC_DEFAULT_HAIKU_MODEL
    ELSE modelName

----------------------------------------------------------------------------
(* Reset-time formatting: "HH:mm" on the calendar day of t, else           *)
(* "MM/dd HH:mm". The text is [date, time], date being << >> or            *)
(* <<month digits, day digits>>. Local time is UTC; the calendar is that   *)
(* of 1970 and 1971, neither of which is a leap year.                      *)

DayOf(ms) == ms \div DayMs

DaysInYear == 365
DaysInMonth == <<31, 28, 31, 30, 31, 30, 31, 31, 30, 31, 30, 31>>

\* the month (1..12) and the day of the month of day d (0..364) of a year
RECURSIVE MonthFrom(_, _)
MonthFrom(d, m) ==
    IF d < DaysInMonth[m] THEN [month |-> m, date |-> d + 1]
    ELSE MonthFrom(d - DaysInMonth[m], m + 1)

\* new Date(ms): the day since the epoch and the time within that day. An
\* instant later than 2^31 ms after the epoch is given by these two directly.
NewDate(ms) == [day |-> ms \div DayMs, ofDay |-> ms % DayMs]

getFullYear(date) == 1970 + date.day \div DaysInYear
getMonth(date) == MonthFrom(date.day % DaysInYear, 1).month - 1
getDate(date) == MonthFrom(date.day % DaysInYear, 1).date
getHours(date) == date.ofDay \div HourMs
getMinutes(date) == (date.ofDay % HourMs) \div MinuteMs

\* Date.prototype.toDateString: the year, month and day (and the weekday, which
\* they determine)
toDateString(date) == <<getFullYear(date), getMonth(date), getDate(date)>>

\* mutant: two dates are taken for the same day when their days of the month agree
formatDates_DayOfMonthOnly(date, nowDate) ==
    LET hours   == Pad2(getHours(date))
        minutes == Pad2(getMinutes(date))
    IN  IF getDate(date) = getDate(nowDate)
        THEN [date |-> << >>, time |-> <<hours, minutes>>]
        ELSE [date |-> <<Pad2(getMonth(date) + 1), Pad2(getDate(date))>>,
              time |-> <<hours, minutes>>]

\* the body of formatResetTime once date and now are constructed
formatDates(date, nowDate) ==
    LET hours   == Pad2(getHours(date))
        minutes == Pad2(getMinutes(date))
    IN  IF toDateString(date) = toDateString(nowDate)
        THEN [date |-> << >>, time |-> <<hours, minutes>>]
        ELSE [date |-> <<Pad2(getMonth(date) + 1), Pad2(getDate(date))>>,
              time |-> <<hours, minutes>>]

formatResetTime(timestamp, t) == formatDates(NewDate(timestamp), NewDate(t))

getSeconds(date) == (date.ofDay % MinuteMs) \div SecondMs

\* formatDateTime(date): yyyy-MM-dd HH:mm:ss, as its six numbers
formatDateTime(date) ==
    [ year |-> getFullYear(date), month |-> Pad2(getMonth(date) + 1), day |-> Pad2(getDate(date)),
      hours |-> Pad2(getHours(date)), minutes |-> Pad2(getMinutes(date)),
      seconds |-> Pad2(getSeconds(date)) ]

\* mutant: the window is the last hour
TimeWindow_OneHour(t) ==
    [startTime |-> formatDateTime(NewDate(t - HourMs)), endTime |-> formatDateTime(NewDate(t))]

\* queryParams of fetchUsageData at time t: startTime is five hours before now
TimeWindow(t) ==
    [ startTime |-> formatDateTime(NewDate(t - 5 * 60 * 60 * 1000)),
      endTime   |-> formatDateTime(NewDate(t)) ]

\* the query a request carries: fetchQuota passes "", the other two helpers
\* pass queryParams
QueryOf(e, queryParams) == IF e = "quota" THEN << >> ELSE <<queryParams>>

----------------------------------------------------------------------------
(* The three fetch helpers: the value each one fulfils with, given how its *)
(* httpsGet settled (s) and, for the quota, the time t at which it did     *)

\* limit.percentage || 0, rounded
LimitPercent(limit) ==
    IF "percentage" \in DOMAIN limit THEN Round10(limit.percentage) ELSE 0

\* mutant: the first entry of a type wins
RECURSIVE QuotaLoop_FirstWins(_, _, _)
QuotaLoop_FirstWins(limits, i, acc) ==
    IF i > Len(limits) THEN acc
    ELSE LET limit == limits[i]
             first == \A j \in 1..(i - 1) : limits[j].type # limit.type
             a1 == IF limit.type = "TOKENS_LIMIT" /\ first
                   THEN [acc EXCEPT !.tokenPercent = LimitPercent(limit),
                                    !.nextResetTime =
                                        IF "nextResetTime" \in DOMAIN limit
                                        THEN <<limit.nextResetTime>> ELSE << >>]
                   ELSE acc
             a2 == IF limit.type = "TIME_LIMIT" /\ first
                   THEN [a1 EXCEPT !.mcpPercent = LimitPercent(limit)]
                   ELSE a1
         IN  QuotaLoop_FirstWins(limits, i + 1, a2)

\* mutant: a TOKENS_LIMIT entry without nextResetTime keeps the value found so far
RECURSIVE QuotaLoop_KeepsResetTime(_, _, _)
QuotaLoop_KeepsResetTime(limits, i, acc) ==
    IF i > Len(limits) THEN acc
    ELSE LET limit == limits[i]
             a1 == IF limit.type = "TOKENS_LIMIT"
                   THEN [acc EXCEPT !.tokenPercent = LimitPercent(limit),
                                    !.nextResetTime =
                                        IF "nextResetTime" \in DOMAIN limit
                                        THEN <<limit.nextResetTime>> ELSE @]
                   ELSE acc
             a2 == IF limit.type = "TIME_LIMIT"
                   THEN [a1 EXCEPT !.mcpPercent = LimitPercent(limit)]
                   ELSE a1
         IN  QuotaLoop_KeepsResetTime(limits, i + 1, a2)

\* the for loop of fetchQuota over limits[i..]; acc is
\* [tokenPercent, mcpPercent, nextResetTime (<< >> when undefined)]
RECURSIVE QuotaLoop(_, _, _)
QuotaLoop(limits, i, acc) ==
    IF i > Len(limits) THEN acc
    ELSE LET limit == limits[i]
             a1 == IF limit.type = "TOKENS_LIMIT"
                   THEN [acc EXCEPT !.tokenPercent = LimitPercent(limit),
                                    !.nextResetTime =
                                        IF "nextResetTime" \in DOMAIN limit
                                        THEN <<limit.nextResetTime>> ELSE << >>]
                   ELSE acc
             a2 == IF limit.type = "TIME_LIMIT"
                   THEN [a1 EXCEPT !.mcpPercent = LimitPercent(limit)]
                   ELSE a1
         IN  QuotaLoop(limits, i + 1, a2)

QuotaDefault == [tokenPercent |-> 0, mcpPercent |-> 0]

\* the success branch of fetchQuota is taken
QuotaShapeOk(s) ==
    /\ s.status = "fulfilled"
    /\ "data" \in DOMAIN s.value
    /\ "limits" \in DOMAIN s.value.data

fetchQuota(s, t) ==
    IF QuotaShapeOk(s)
    THEN LET acc == QuotaLoop(s.value.data.limits, 1,
                              [tokenPercent |-> 0, mcpPercent |-> 0, nextResetTime |-> << >>])
             nrt == acc.nextResetTime
         IN  [tokenPercent |-> acc.tokenPercent, mcpPercent |-> acc.mcpPercent]
             @@ (IF nrt # << >> THEN [nextResetTime |-> nrt[1]] ELSE EmptyRec)
             @@ (IF nrt # << >> /\ nrt[1] # 0
                 THEN [nextResetTimeStr |-> formatResetTime(nrt[1], t)] ELSE EmptyRec)
    ELSE QuotaDefault

\* mutant: the count of the first row stands for the total
SumField_FirstRowOnly(list, field, i) ==
    IF Len(list) > 0 /\ field \in DOMAIN list[1] THEN list[1][field] ELSE 0

\* list.reduce((sum, item) => sum + (item[field] || 0), 0)
RECURSIVE SumField(_, _, _)
SumField(list, field, i) ==
    IF i > Len(list) THEN 0
    ELSE (IF field \in DOMAIN list[i] THEN list[i][field] ELSE 0) + SumField(list, field, i + 1)

\* (totalInputTokens / 1_000_000) * 3 + (totalOutputTokens / 1_000_000) * 15,
\* then toFixed(2): the nearest cent of (3 in + 15 out) / 10^6
ToFixed2Cost(totalInputTokens, totalOutputTokens) ==
    LET cents == (3 * totalInputTokens + 15 * totalOutputTokens + 5000) \div 10000
    IN  [units |-> cents \div 100, cents |-> Pad2(cents % 100)]

ZeroCost == [units |-> 0, cents |-> Pad2(0)]      \* "0.00"
Unknown == <<"Unknown">>                          \* "Unknown"

\* mutant: the placeholder model name of the setup_required snapshot is used
ModelUsageDefault_Opus == [totalCost |-> ZeroCost, modelName |-> <<"Opus">>, hasData |-> FALSE]

ModelUsageDefault == [totalCost |-> ZeroCost, modelName |-> Unknown, hasData |-> FALSE]

ListShapeOk(s) ==
    /\ s.status = "fulfilled"
    /\ "data" \in DOMAIN s.value
    /\ "list" \in DOMAIN s.value.data
    /\ Len(s.value.data.list) > 0

\* mutant: the model name is read in the last row of the list
fetchModelUsage_LastRowModel(s) ==
    IF ListShapeOk(s)
    THEN LET list == s.value.data.list
             last == list[Len(list)]
             rawModelName == IF "model" \in DOMAIN last /\ last.model # << >>
                             THEN last.model ELSE Unknown
         IN  [ totalCost |-> ToFixed2Cost(SumField(list, "inputTokens", 1),
                                          SumField(list, "outputTokens", 1)),
               modelName |-> mapModelName(rawModelName),
               hasData   |-> TRUE ]
    ELSE ModelUsageDefault

fetchModelUsage(s) ==
    IF ListShapeOk(s)
    THEN LET list == s.value.data.list
             rawModelName == IF "model" \in DOMAIN list[1] /\ list[1].model # << >>
                             THEN list[1].model ELSE Unknown
         IN  [ totalCost |-> ToFixed2Cost(SumField(list, "inputTokens", 1),
                                          SumField(list, "outputTokens", 1)),
               modelName |-> mapModelName(rawModelName),
               hasData   |-> TRUE ]
    ELSE ModelUsageDefault

\* mutant: the percentage is not capped
fetchToolUsage_NoCap(s) ==
    IF ListShapeOk(s)
    THEN Len(s.value.data.list) * 5
    ELSE 0

fetchToolUsage(s) ==
    IF ListShapeOk(s)
    THEN Min(100, Len(s.value.data.list) * 5)
    ELSE 0

----------------------------------------------------------------------------
(* fetchUsageData: the snapshots it can return *)

\* mutant: the placeholders of the missing configuration are returned as data
SetupRequired_NoError ==
    [ modelName |-> <<"Opus">>, tokenPercent |-> 0, mcpPercent |-> 0, totalCost |-> ZeroCost ]

\* mutant: another error code for the missing configuration
SetupRequired_Renamed ==
    [ error |-> "config_missing", modelName |-> <<"Opus">>,
      tokenPercent |-> 0, mcpPercent |-> 0, totalCost |-> ZeroCost ]

SetupRequired ==
    [ error |-> "setup_required", modelName |-> <<"Opus">>,
      tokenPercent |-> 0, mcpPercent |-> 0, totalCost |-> ZeroCost ]

Loading == [error |-> "loading"]

\* mutant: the precedence of the earlier variant of the script, in which the
\* quota's TIME_LIMIT percent overrides the tool-usage percent
FinalMcpPercent_QuotaWins(quotaData, mcpPercent) ==
    LET fromTool == IF mcpPercent.status = "fulfilled" THEN mcpPercent.value ELSE 0
    IN  IF quotaData.status = "fulfilled" /\ quotaData.value.mcpPercent > 0
        THEN quotaData.value.mcpPercent
        ELSE fromTool

\* mutant: merge by arrival, the later of the quota and the tool-usage helper
\* to settle sets mcpPercent
FinalMcpPercent_LastSettledWins(quotaData, mcpPercent) ==
    LET p == CHOOSE q \in DOMAIN pc : pc[q] = "fetching"
        at(ev) == CHOOSE i \in DOMAIN log[p] : log[p][i] = ev
    IN  IF at("settle quota") > at("settle tool")
        THEN quotaData.value.mcpPercent
        ELSE mcpPercent.value

\* finalMcpPercent: the quota's TIME_LIMIT percent, overridden by a tool-usage
\* percent > 0 (quotaData, mcpPercent: entries of Promise.allSettled)
FinalMcpPercent(quotaData, mcpPercent) ==
    LET fromQuota == IF quotaData.status = "fulfilled" THEN quotaData.value.mcpPercent ELSE 0
    IN  IF mcpPercent.status = "fulfilled" /\ mcpPercent.value > 0
        THEN mcpPercent.value
        ELSE fromQuota

\* mutant: a helper that fell back to its default leaves its fields undefined
MergeSnapshot_Sparse(quotaData, modelUsageData, mcpPercent, t) ==
    [ mcpPercent |-> FinalMcpPercent(quotaData, mcpPercent),
      modelName  |-> modelUsageData.value.modelName,
      timestamp  |-> t ]
    @@ (IF "nextResetTime" \in DOMAIN quotaData.value
        THEN [tokenPercent |-> quotaData.value.tokenPercent] ELSE EmptyRec)
    @@ (IF modelUsageData.value.hasData
        THEN [totalCost |-> modelUsageData.value.totalCost] ELSE EmptyRec)

\* the merge after Promise.allSettled, stamped with Date.now() = t
MergeSnapshot(quotaData, modelUsageData, mcpPercent, t) ==
    LET qOk == quotaData.status = "fulfilled"
        mOk == modelUsageData.status = "fulfilled"
    IN  [ tokenPercent |-> IF qOk THEN quotaData.value.tokenPercent ELSE 0,
          mcpPercent   |-> FinalMcpPercent(quotaData, mcpPercent),
          totalCost    |-> IF mOk THEN modelUsageData.value.totalCost ELSE ZeroCost,
          modelName    |-> IF mOk THEN modelUsageData.value.modelName ELSE Unknown,
          timestamp    |-> t ]
        @@ (IF qOk /\ "nextResetTime" \in DOMAIN quotaData.value
            THEN [nextResetTime |-> quotaData.value.nextResetTime] ELSE EmptyRec)
        @@ (IF qOk /\ "nextResetTimeStr" \in DOMAIN quotaData.value
            THEN [nextResetTimeStr |-> quotaData.value.nextResetTimeStr] ELSE EmptyRec)

----------------------------------------------------------------------------
(* What the endpoints can answer *)

ResetToday == DayMs - HourMs        \* 23:00 of the day on which the clock starts

QuotaBodies ==
    { [data |-> [limits |->
          << [type |-> "TOKENS_LIMIT", percentage |-> 724, nextResetTime |-> ResetToday],
             [type |-> "TIME_LIMIT", percentage |-> 400] >>]],
      [success |-> FALSE] }

ModelBodies ==
    { [data |-> [list |->
          << [model |-> <<"Claude", "Opus">>, inputTokens |-> 500000, outputTokens |-> 100000] >>]],
      [data |-> [list |-> << >>]] }

ToolBodies ==
    { [data |-> [list |-> <<"row", "row", "row", "row">>]],
      [data |-> [list |-> << >>]] }

Bodies(e) ==
    CASE e = "quota" -> QuotaBodies
      [] e = "model" -> ModelBodies
      [] e = "tool"  -> ToolBodies

StatusCodes == {200, 500}

\* the texts a response can carry: a JSON document, or something that is not JSON
Texts(e) == {<<b>> : b \in Bodies(e)} \cup {<< >>}

\* the value the helper of endpoint e fulfils with when its httpsGet settled as s at t
Helper(e, s, t) ==
    CASE e = "quota" -> fetchQuota(s, t)
      [] e = "model" -> fetchModelUsage(s)
      [] e = "tool"  -> fetchToolUsage(s)

\* history: the helper of endpoint e fell back to its default
HelperFailed(e, s) ==
    CASE e = "quota" -> ~QuotaShapeOk(s)
      [] e = "model" -> ~ListShapeOk(s)
      [] e = "tool"  -> ~ListShapeOk(s)

----------------------------------------------------------------------------
(* State *)

Procs == DOMAIN pc

NoProbe == [kind |-> "none"]

NoReq ==
    [ st |-> "none", timer |-> FALSE, due |-> 0, out |-> << >>, failed |-> FALSE,
      timedOut |-> FALSE, query |-> << >> ]

CachedSample ==
    [ tokenPercent |-> 55, mcpPercent |-> 10, totalCost |-> ToFixed2Cost(400000, 3000),
      modelName |-> <<"GLM-4.7">>, timestamp |-> StartTime ]

\* what CACHE_FILE can hold when the first invocation starts: nothing, a
\* damaged file, a file that cannot be read, or a document of the CacheData shape {data, timestamp}
\* stamped now or (clock set back since) in the future
InitFiles ==
    { Absent, Garbage, Unreadable,
      Json([data |-> CachedSample, timestamp |-> StartTime]),
      Json([data |-> CachedSample, timestamp |-> StartTime + 2 * TickMs]) }

External == [by |-> "external"]

\* history: the timestamp property of a loaded cache document (<< >> when there
\* is no document or no such property)
EntryStamp(cache) ==
    IF cache # << >> /\ "timestamp" \in DOMAIN cache[1] THEN <<cache[1].timestamp>> ELSE << >>

InitFor(procs) ==
    /\ now = StartTime
    /\ file \in InitFiles
    /\ origin = External
    /\ calls = 0
    /\ pc = [p \in procs |-> "idle"]
    /\ cfg = [p \in procs |-> << >>]
    /\ req = [p \in procs |-> [e \in Endpoints |-> NoReq]]
    /\ result = [p \in procs |-> << >>]
    /\ log = [p \in procs |-> << >>]
    /\ seen = [p \in procs |-> << >>]
    /\ probe = NoProbe

Init == InitFor({1})

----------------------------------------------------------------------------
(* Actions *)

\* the host starts the script: module-level code reads the configuration and
\* resolves the endpoints
Launch(p) ==
    /\ pc[p] = "idle"
    /\ calls < MaxCalls
    /\ \E c \in Configs :
        /\ cfg' = [cfg EXCEPT ![p] = <<c>>]
        /\ pc' = [pc EXCEPT ![p] = IF ModuleInitThrows(c) THEN "crashed" ELSE "main"]
    /\ calls' = calls + 1
    /\ UNCHANGED <<now, file, origin, req, result, log, seen, probe>>

\* mutant: the requests are started whatever the cache check found
StartsRequests_NoCacheCheck(cachedData, c) == ~ConfigAbsent(c)

\* fetchUsageData goes on to its three requests: no cached data was returned
\* and the environment check passed
StartsRequests(cachedData, c) == cachedData = << >> /\ ~ConfigAbsent(c)

\* mutant: a cache hit stamps the entry anew
FileAfterCheck_Refresh(f, cachedData, t) ==
    IF cachedData # << >> THEN Json([data |-> cachedData[1], timestamp |-> t]) ELSE f

\* CACHE_FILE after shouldUseCache and the environment check: loadCache only
\* reads, and neither return path calls saveCache
FileAfterCheck(f, cachedData, t) == f

\* fetchUsageData up to its first await: cache check, environment check, and
\* the start of the three requests (each with its own timer)
FetchUsageData(p) ==
    /\ pc[p] = "main"
    /\ LET c == cfg[p][1]
           cachedData == shouldUseCache(file, now)
       IN  /\ seen' = [seen EXCEPT ![p] =
                         <<[at |-> now, stamp |-> EntryStamp(loadCache(file)),
                            valid |-> isCacheValid(loadCache(file), now)]>>]
           /\ result' = [result EXCEPT ![p] =
                            IF cachedData # << >> THEN cachedData
                            ELSE IF ConfigAbsent(c) THEN <<SetupRequired>>
                            ELSE << >>]
           /\ IF StartsRequests(cachedData, c)
              THEN /\ req' = [req EXCEPT ![p] =
                                [e \in Endpoints |->
                                    [st |-> "pending", timer |-> TRUE,
                                     due |-> now + REQUEST_TIMEOUT,
                                     out |-> << >>, failed |-> FALSE,
                                     timedOut |-> FALSE,
                                     query |-> QueryOf(e, TimeWindow(now))]]]
                   /\ pc' = [pc EXCEPT ![p] = "fetching"]
                   /\ log' = [log EXCEPT ![p] =
                                <<"loadCache">>
                                \o (IF cachedData # << >> THEN <<"cache hit">> ELSE << >>)
                                \o <<"request quota", "request model", "request tool">>]
              ELSE /\ pc' = [pc EXCEPT ![p] = "done"]
                   /\ log' = [log EXCEPT ![p] =
                                <<"loadCache">>
                                \o (IF cachedData # << >> THEN <<"cache hit">> ELSE << >>)
                                \o <<"return">>]
                   /\ UNCHANGED req
           /\ file' = FileAfterCheck(file, cachedData, now)
    /\ UNCHANGED <<now, origin, calls, cfg, probe>>

\* history: how many times event ev is in the log of p
Count(p, ev) == Cardinality({i \in DOMAIN log[p] : log[p][i] = ev})

\* mutant: a helper whose httpsGet was rejected requests its endpoint once more
Settle_RetryOnFailure(p, e, s) ==
    IF s.status = "rejected" /\ Count(p, "request " \o e) = 1
    THEN /\ req' = req
         /\ log' = [log EXCEPT ![p] = Append(@, "request " \o e)]
    ELSE /\ req' = [req EXCEPT ![p][e].st = "settled",
                               ![p][e].out = <<Resolved(Helper(e, s, now))>>,
                               ![p][e].failed = HelperFailed(e, s)]
         /\ log' = [log EXCEPT ![p] = Append(@, "settle " \o e)]

\* httpsGet of endpoint e settles as s; its helper fulfils with Helper(e, s, now)
Settle(p, e, s) ==
    /\ req' = [req EXCEPT ![p][e].st = "settled",
                          ![p][e].out = <<Resolved(Helper(e, s, now))>>,
                          ![p][e].failed = HelperFailed(e, s)]
    /\ log' = [log EXCEPT ![p] = Append(@, "settle " \o e)]

\* res.on("end") of endpoint e
Respond(p, e) ==
    /\ req[p][e].st = "pending"
    /\ \E statusCode \in StatusCodes, text \in Texts(e) :
          Settle(p, e, httpsGetOnEnd(statusCode, text))
    /\ UNCHANGED <<now, file, origin, calls, pc, cfg, result, seen, probe>>

\* req.on("error") of endpoint e
NetError(p, e) ==
    /\ req[p][e].st = "pending"
    /\ Settle(p, e, httpsGetOnError)
    /\ UNCHANGED <<now, file, origin, calls, pc, cfg, result, seen, probe>>

\* Registration order of the three timers (the order of the calls in
\* Promise.allSettled([fetchQuota(), fetchModelUsage(), fetchToolUsage()]))
TimerOrder == <<"quota", "model", "tool">>

\* mutant: one timer for the whole call, which rejects the first request only
TimerCallback_FirstRequestOnly(r, e, t) ==
    IF r.st = "pending" /\ e = "quota"
    THEN [r EXCEPT !.st = "settled", !.timer = FALSE,
                   !.out = <<Resolved(Helper(e, httpsGetOnTimeout, t))>>,
                   !.failed = HelperFailed(e, httpsGetOnTimeout),
                   !.timedOut = TRUE]
    ELSE [r EXCEPT !.timer = FALSE]

\* mutant: the timer destroys the request and leaves its promise pending
TimerCallback_DestroyOnly(r, e, t) == [r EXCEPT !.timer = FALSE]

\* one setTimeout callback, on request r of endpoint e at time t:
\* req.destroy(); reject(new Error("Request timeout")). On a promise that has
\* settled already the reject does nothing
TimerCallback(r, e, t) ==
    IF r.st = "pending"
    THEN [r EXCEPT !.st = "settled", !.timer = FALSE,
                   !.out = <<Resolved(Helper(e, httpsGetOnTimeout, t))>>,
                   !.failed = HelperFailed(e, httpsGetOnTimeout),
                   !.timedOut = TRUE]
    ELSE [r EXCEPT !.timer = FALSE]

\* the timers phase of the event loop: the three timers were set in the same
\* synchronous block with the same delay, so they expire together and their
\* callbacks run back to back in registration order
Timeout(p) ==
    /\ \E e \in Endpoints : req[p][e].timer
    /\ \A e \in Endpoints : req[p][e].timer => now >= req[p][e].due
    /\ req' = [req EXCEPT ![p] = [e \in Endpoints |-> TimerCallback(req[p][e], e, now)]]
    /\ log' = [log EXCEPT ![p] =
                 @ \o [i \in 1..Len(SelectSeq(TimerOrder, LAMBDA e : req[p][e].st = "pending")) |->
                          "settle " \o SelectSeq(TimerOrder, LAMBDA e : req[p][e].st = "pending")[i]]]
    /\ UNCHANGED <<now, file, origin, calls, pc, cfg, result, seen, probe>>

\* mutant: a race instead of a join (the first helper to settle resumes the call)
AnySettled(r) == \E e \in Endpoints : r[e].st = "settled"

\* Promise.allSettled([...]) has resolved: each of the three helpers has settled
AllSettled(r) == \A e \in Endpoints : r[e].st = "settled"

\* the entry of the allSettled result for request r
Outcome(r) == IF r.st = "settled" THEN r.out[1] ELSE [status |-> "pending"]

\* mutant: Promise.all over helpers that let their failure through
AwaitJoin_RejectsOnFailure(r) ==
    IF \E e \in Endpoints : r[e].failed THEN Rejected("fetch failed") ELSE Resolved("settled")

\* the promise awaited in the try block: Promise.allSettled never rejects
AwaitJoin(r) == Resolved("settled")

\* mutant: a snapshot made of defaults only is not saved
CallsSaveCache_NotWhenAllFailed(r) == \E e \in Endpoints : ~r[e].failed

\* saveCache(result) follows the merge unconditionally
CallsSaveCache(r) == TRUE

\* the continuation of await Promise.allSettled([...]): merge, stamp,
\* saveCache (which swallows a failed write), return; the catch of the try
\* block returns the "loading" snapshot
Join(p) ==
    /\ pc[p] = "fetching"
    /\ AllSettled(req[p])
    /\ LET snapshot == MergeSnapshot(Outcome(req[p]["quota"]), Outcome(req[p]["model"]),
                                     Outcome(req[p]["tool"]), now)
       IN  IF AwaitJoin(req[p]).status = "rejected"
           THEN /\ result' = [result EXCEPT ![p] = <<Loading>>]
                /\ log' = [log EXCEPT ![p] = @ \o <<"return">>]
                /\ UNCHANGED <<file, origin>>
           ELSE /\ result' = [result EXCEPT ![p] = <<snapshot>>]
                /\ \E writable \in BOOLEAN :
                     IF ~CallsSaveCache(req[p])
                     THEN /\ UNCHANGED <<file, origin>>
                          /\ log' = [log EXCEPT ![p] = @ \o <<"return">>]
                     ELSE IF writable
                     THEN /\ file' = saveCacheDoc(snapshot)
                          /\ origin' = [by |-> "live", snap |-> snapshot]
                          /\ log' = [log EXCEPT ![p] = @ \o <<"saveCache", "written", "return">>]
                     ELSE /\ UNCHANGED <<file, origin>>
                          /\ log' = [log EXCEPT ![p] = @ \o <<"saveCache", "return">>]
    /\ pc' = [pc EXCEPT ![p] = "done"]
    /\ UNCHANGED <<now, calls, cfg, req, seen, probe>>

\* the process ends once nothing is left on its event loop (its timers included)
Exit(p) ==
    /\ pc[p] \in {"done", "crashed"}
    /\ \A e \in Endpoints : ~req[p][e].timer
    /\ pc' = [pc EXCEPT ![p] = "idle"]
    /\ cfg' = [cfg EXCEPT ![p] = << >>]
    /\ req' = [req EXCEPT ![p] = [e \in Endpoints |-> NoReq]]
    /\ result' = [result EXCEPT ![p] = << >>]
    /\ log' = [log EXCEPT ![p] = << >>]
    /\ seen' = [seen EXCEPT ![p] = << >>]
    /\ UNCHANGED <<now, file, origin, calls, probe>>

\* the invocation has something to run that takes far less than a clock step:
\* the stdin read of main (100 ms at most), a promise continuation, or the
\* end of the process
Busy(p) ==
    \/ pc[p] = "main"
    \/ pc[p] = "saving"
    \/ pc[p] = "fetching" /\ AllSettled(req[p])
    \/ pc[p] \in {"done", "crashed"} /\ \A e \in Endpoints : ~req[p][e].timer

\* time passes; a timer that is due fires, and a step that is ready runs,
\* before the clock advances further
Tick ==
    /\ now + TickMs <= EndTime
    /\ \A p \in Procs, e \in Endpoints : req[p][e].timer => now < req[p][e].due
    /\ \A p \in Procs : ~Busy(p)
    /\ now' = now + TickMs
    /\ UNCHANGED <<file, origin, calls, pc, cfg, req, result, log, seen, probe>>

Next ==
    \/ \E p \in Procs : Launch(p)
    \/ \E p \in Procs : FetchUsageData(p)
    \/ \E p \in Procs, e \in Endpoints : Respond(p, e)
    \/ \E p \in Procs, e \in Endpoints : NetError(p, e)
    \/ \E p \in Procs : Timeout(p)
    \/ \E p \in Procs : Join(p)
    \/ \E p \in Procs : Exit(p)
    \/ Tick

Spec == Init /\ [][Next]_vars

\* The same program with what its scheduling guarantees: the clock advances,
\* a timer that is due fires, and a continuation that is ready (the start of
\* fetchUsageData, the one of Promise.allSettled) is run by the event loop.
\* Nothing is assumed of the endpoints: they may never answer. There is one
\* invocation, as in Init.
Fairness ==
    /\ WF_vars(Tick)
    /\ \A p \in {1} : /\ WF_vars(FetchUsageData(p))
                      /\ WF_vars(Timeout(p))
                      /\ WF_vars(Join(p))

FairSpec == Init /\ [][Next]_vars /\ Fairness

----------------------------------------------------------------------------
(* Functions taken on their own: the endpoint resolution, the quota        *)
(* extraction and one httpsGet call. probe holds the call under study (its *)
(* inputs and what it gave); the invocations of the script stay idle.      *)

mainVars == <<now, file, origin, calls, pc, cfg, req, result, log, seen>>

MaxLimits == 3      \* entries in the limits list of a quota answer

\* base URLs beyond those of BaseUrls: the other two supported domains, a
\* supported domain in the path of another host, a text that is no URL
ProbeUrls ==
    BaseUrls \cup
    { [scheme |-> "https:", host |-> <<"open.bigmodel.cn">>, rest |-> <<"/api/anthropic">>],
      [scheme |-> "https:", host |-> <<"dev.bigmodel.cn">>, rest |-> << >>],
      [scheme |-> "https:", host |-> <<"example.com">>, rest |-> <<"/proxy/", "api.z.ai">>],
      [scheme |-> "", host |-> << >>, rest |-> <<"not a url">>] }

\* the entries a limits list is made of: percentages 72.4, 12.5 and 40.0,
\* percentages beyond the limit (120.5) and below zero (-5.0), entries without
\* a percentage, an entry of another type; reset times on a TOKENS_LIMIT
\* entry (one of them 0) and on a TIME_LIMIT entry
LimitEntries ==
    { [type |-> "TOKENS_LIMIT", percentage |-> 724, nextResetTime |-> ResetToday],
      [type |-> "TOKENS_LIMIT", percentage |-> 125],
      [type |-> "TOKENS_LIMIT", percentage |-> 125, nextResetTime |-> 0],
      [type |-> "TOKENS_LIMIT", percentage |-> 1205],
      [type |-> "TOKENS_LIMIT"],
      [type |-> "TIME_LIMIT", percentage |-> 400],
      [type |-> "TIME_LIMIT", percentage |-> 400, nextResetTime |-> DayMs + HourMs],
      [type |-> "TIME_LIMIT", percentage |-> -50],
      [type |-> "TIME_LIMIT"],
      [type |-> "REQUESTS_LIMIT", percentage |-> 990] }

LimitLists == UNION {[1..n -> LimitEntries] : n \in 0..MaxLimits}

ProbeTexts == UNION {Texts(e) : e \in Endpoints}

PureInit ==
    /\ InitFor({1})
    /\ file = Absent

\* the module-level resolution and buildApiConfig on one configuration
ResolveProbe ==
    /\ probe.kind = "none"
    /\ \E baseUrl \in ProbeUrls, authToken \in AuthTokens :
          LET c == [authToken |-> authToken, baseUrl |-> baseUrl]
          IN  probe' = [ kind |-> "resolve", baseUrl |-> baseUrl, authToken |-> authToken,
                         throws |-> ModuleInitThrows(c),
                         urls |-> IF ModuleInitThrows(c) THEN << >> ELSE ResolveUrls(c),
                         absent |-> ConfigAbsent(c),
                         config |-> buildApiConfig(baseUrl, authToken) ]
    /\ UNCHANGED mainVars

\* fetchQuota on an answer of the quota endpoint with the limits list drawn
QuotaProbe ==
    /\ probe.kind = "none"
    /\ \E limits \in LimitLists :
          LET out == fetchQuota(Resolved([data |-> [limits |-> limits]]), now)
          IN  probe' = [ kind |-> "quota", limits |-> limits, out |-> out,
                         snapshot |-> MergeSnapshot(Resolved(out), Resolved(ModelUsageDefault),
                                                    Resolved(0), now) ]
    /\ UNCHANGED mainVars

\* what the httpsGet of the quota endpoint settles with when the quota fetch fails
QuotaFailures ==
    { Resolved([success |-> FALSE]), Resolved([data |-> EmptyRec]),
      httpsGetOnEnd(500, << >>), httpsGetOnEnd(200, << >>), httpsGetOnError, httpsGetOnTimeout }

\* fetchQuota on a failed request, and the snapshot the merge makes of it
QuotaFailedProbe ==
    /\ probe.kind = "none"
    /\ \E s \in QuotaFailures :
          LET out == fetchQuota(s, now)
          IN  probe' = [ kind |-> "quotaFailed", s |-> s, out |-> out,
                         snapshot |-> MergeSnapshot(Resolved(out), Resolved(ModelUsageDefault),
                                                    Resolved(0), now) ]
    /\ UNCHANGED mainVars

\* the events of the call that have happened so far
Happened(pr) == (IF pr.got = << >> THEN {} ELSE {pr.got[1].via}) \cup Range(pr.later)

\* mutant: a later resolve or reject replaces the outcome
SettleOnce_LastWins(pr, ev, outcome) ==
    IF pr.st = "pending"
    THEN [pr EXCEPT !.st = "settled", !.got = <<ev>>, !.out = <<outcome>>,
                    !.helped = <<fetchToolUsage(outcome)>>]
    ELSE [pr EXCEPT !.later = Append(@, ev.via), !.out = <<outcome>>,
                    !.helped = <<fetchToolUsage(outcome)>>]

\* resolve(...) or reject(...) of the promise of the call on event ev: the
\* first one settles it (and resumes the helper that awaits it, here
\* fetchToolUsage), a later one does nothing
SettleOnce(pr, ev, outcome) ==
    IF pr.st = "pending"
    THEN [pr EXCEPT !.st = "settled", !.got = <<ev>>, !.out = <<outcome>>,
                    !.helped = <<fetchToolUsage(outcome)>>]
    ELSE [pr EXCEPT !.later = Append(@, ev.via)]

\* httpsGet(url, queryParams): the request is sent and its timer is set
HttpsGet ==
    /\ probe.kind = "none"
    /\ probe' = [ kind |-> "httpsGet", st |-> "pending", elapsed |-> 0, timer |-> TRUE,
                  destroyed |-> FALSE, got |-> << >>, out |-> << >>,
                  later |-> << >>, helped |-> << >> ]
    /\ UNCHANGED mainVars

\* res.on("end"): the response is complete
OnEnd ==
    /\ probe.kind = "httpsGet" /\ "end" \notin Happened(probe)
    /\ \E statusCode \in StatusCodes, text \in ProbeTexts :
          probe' = SettleOnce(probe, [via |-> "end", statusCode |-> statusCode, text |-> text],
                              httpsGetOnEnd(statusCode, text))
    /\ UNCHANGED mainVars

\* req.on("error"), the error being one of the network or the one raised by
\* req.destroy()
OnError ==
    /\ probe.kind = "httpsGet" /\ "error" \notin Happened(probe)
    /\ probe' = SettleOnce(probe, [via |-> "error"], httpsGetOnError)
    /\ UNCHANGED mainVars

\* the setTimeout callback: req.destroy(), reject
OnTimeout ==
    /\ probe.kind = "httpsGet" /\ probe.timer
    /\ probe.elapsed >= REQUEST_TIMEOUT
    /\ probe' = [SettleOnce(probe, [via |-> "timeout"], httpsGetOnTimeout)
                    EXCEPT !.timer = FALSE, !.destroyed = TRUE]
    /\ UNCHANGED mainVars

\* time passes for the request, up to the expiry of its timer
Elapse ==
    /\ probe.kind = "httpsGet" /\ probe.timer
    /\ probe.elapsed < REQUEST_TIMEOUT
    /\ probe' = [probe EXCEPT !.elapsed = @ + TickMs]
    /\ UNCHANGED mainVars

MaxRows == 21       \* rows in a tool-usage answer

\* what the httpsGet of the tool-usage endpoint can settle with: an answer of
\* n rows, an answer without a list, a failure
ToolAnswers ==
    { Resolved([data |-> [list |-> [i \in 1..n |-> "row"]]]) : n \in 0..MaxRows }
    \cup { Resolved([success |-> FALSE]), Resolved([data |-> EmptyRec]),
           httpsGetOnEnd(500, << >>), httpsGetOnEnd(200, << >>),
           httpsGetOnError, httpsGetOnTimeout }

\* fetchToolUsage on one outcome of its request
ToolProbe ==
    /\ probe.kind = "none"
    /\ \E s \in ToolAnswers :
          probe' = [kind |-> "tool", s |-> s, out |-> fetchToolUsage(s)]
    /\ UNCHANGED mainVars

MaxModelRows == 3   \* rows in a model-usage answer

\* the rows of a model-usage answer: token counts present or not
ModelRows ==
    { r \in UNION { [D -> {2000, 500000, 1000000, 2000000}] :
                     D \in SUBSET {"inputTokens", "outputTokens"} } :
        "outputTokens" \in DOMAIN r => r.outputTokens \in {500000, 1000000} }


\* fetchModelUsage on an answer of the model-usage endpoint with the rows drawn
ModelProbe ==
    /\ probe.kind = "none"
    /\ \E list \in UNION {[1..n -> ModelRows] : n \in 1..MaxModelRows} :
          probe' = [ kind |-> "model", list |-> list,
                     out |-> fetchModelUsage(Resolved([data |-> [list |-> list]])) ]
    /\ UNCHANGED mainVars

MaxNameLen == 2     \* words in a model name


ModelNames ==
    UNION {[1..n -> {"Opus", "Sonnet", "Haiku", "opus", "Claude", "GLM-4.7"}] :
           n \in 0..MaxNameLen}

\* mapModelName on one name
MapProbe ==
    /\ probe.kind = "none"
    /\ \E modelName \in ModelNames :
          probe' = [kind |-> "map", modelName |-> modelName, out |-> mapModelName(modelName)]
    /\ UNCHANGED mainVars

\* days (since the epoch) and times of day of the instants formatResetTime is
\* tried on: the turns of a day, of a month and of a year
ProbeDates ==
    [day : {0, 1, 30, 31, 58, 59, 364, 365, 396},
     ofDay : {0, 9 * HourMs + 5 * MinuteMs, DayMs - 1}]

\* formatResetTime on a timestamp that is the instant date, called at the
\* instant nowDate
ResetProbe ==
    /\ probe.kind = "none"
    /\ \E date \in ProbeDates, nowDate \in ProbeDates :
          probe' = [ kind |-> "reset", date |-> date, nowDate |-> nowDate,
                     out |-> formatDates(date, nowDate) ]
    /\ UNCHANGED mainVars

\* Math.round((total_input_tokens * 100) / context_window_size), 0 when the
\* window, its size or the token count is missing or zero
calculateContextUsage(sessionContext) ==
    LET contextWindow == IF "context_window" \in DOMAIN sessionContext
                         THEN sessionContext.context_window ELSE EmptyRec
        size == IF "context_window_size" \in DOMAIN contextWindow
                THEN contextWindow.context_window_size ELSE 0
        total == IF "total_input_tokens" \in DOMAIN contextWindow
                 THEN contextWindow.total_input_tokens ELSE 0
    IN  IF size = 0 \/ total = 0 THEN 0
        ELSE (2 * total * 100 + size) \div (2 * size)

\* the context_window objects of a session context
ContextWindows ==
    UNION { [D -> {0, 333, 50000, 199000, 200000, 250000}] :
            D \in SUBSET {"context_window_size", "total_input_tokens"} }


\* calculateContextUsage on one session context
ContextProbe ==
    /\ probe.kind = "none"
    /\ \E sessionContext \in {EmptyRec} \cup {[context_window |-> w] : w \in ContextWindows} :
          probe' = [ kind |-> "context", sessionContext |-> sessionContext,
                     out |-> calculateContextUsage(sessionContext) ]
    /\ UNCHANGED mainVars

\* the rows of a model-usage answer by their model field (absent, empty, or a
\* name) and their input tokens (absent, too few to cost a cent, a million)
NamedRows ==
    { m @@ k : m \in {EmptyRec} \cup {[model |-> n] :
                         n \in {<< >>, <<"glm-4.6">>, <<"Claude", "Haiku">>, <<"Claude", "Opus">>}},
               k \in {EmptyRec, [inputTokens |-> 1000], [inputTokens |-> 1000000]} }

\* what the httpsGet of the model-usage endpoint can settle with
ModelAnswers ==
    { Resolved([data |-> [list |-> l]]) : l \in UNION {[1..n -> NamedRows] : n \in 0..MaxModelRows} }
    \cup { Resolved([success |-> FALSE]), httpsGetOnEnd(500, << >>), httpsGetOnEnd(200, << >>),
           httpsGetOnError, httpsGetOnTimeout }

\* fetchModelUsage on one outcome of its request, and the snapshot the merge
\* makes of it when the two other helpers gave their defaults
UsageProbe ==
    /\ probe.kind = "none"
    /\ \E s \in ModelAnswers :
          LET out == fetchModelUsage(s)
          IN  probe' = [ kind |-> "usage", s |-> s, out |-> out,
                         snapshot |-> MergeSnapshot(Resolved(QuotaDefault), Resolved(out),
                                                    Resolved(0), now) ]
    /\ UNCHANGED mainVars

\* a value of a settings file, by its typeof
Str(v) == [type |-> "string", value |-> v]
NotStr == [type |-> "number", value |-> "0"]

\* the env objects settings file i can hold: each of the two variables is
\* absent, not a string, or a string (the URL possibly the empty one)
UrlOfFile == <<"url of local", "url of project", "url of home">>
TokenOfFile == <<"token of local", "token of project", "token of home">>

SettingsEnvs(i) ==
    { b @@ a : b \in {EmptyRec} \cup {[ANTHROPIC_BASE_URL |-> v] :
                         v \in {NotStr, Str(""), Str(UrlOfFile[i])}},
               a \in {EmptyRec, [ANTHROPIC_AUTH_TOKEN |-> Str(TokenOfFile[i])]} }

\* what candidate i can be: no such file, a file that is not JSON, a JSON
\* document without an env object or with one
SettingsFiles(i) ==
    { [kind |-> "missing"], [kind |-> "unparsable"], [kind |-> "json", config |-> EmptyRec] }
    \cup { [kind |-> "json", config |-> [env |-> e]] : e \in SettingsEnvs(i) }

\* the candidates in the order of the loop: .claude/settings.local.json and
\* .claude/settings.json of the project, .claude/settings.json of the home
Candidates == [local : SettingsFiles(1), project : SettingsFiles(2), home : SettingsFiles(3)]
CandidateOrder == <<"local", "project", "home">>

\* the string variables of config.env, copied one by one
StringVars(config) ==
    IF "env" \notin DOMAIN config THEN EmptyRec
    ELSE LET e == config.env
             keep == {k \in DOMAIN e : e[k].type = "string"}
         IN  [k \in keep |-> e[k].value]

\* mutant: the loop of the earlier variant of the script, which returns the
\* first file that defines at least one of the two variables
RECURSIVE ScanCandidates_AnyVariable(_, _)
ScanCandidates_AnyVariable(files, i) ==
    IF i > Len(CandidateOrder) THEN << >>
    ELSE LET f == files[CandidateOrder[i]]
         IN  IF f.kind = "json" /\ DOMAIN StringVars(f.config) # {}
             THEN <<[vars |-> StringVars(f.config), from |-> i]>>
             ELSE ScanCandidates_AnyVariable(files, i + 1)

\* for (const filePath of candidates): a file that cannot be read or parsed
\* is skipped by the catch, one whose env lacks a variable by the if
RECURSIVE ScanCandidates(_, _)
ScanCandidates(files, i) ==
    IF i > Len(CandidateOrder) THEN << >>
    ELSE LET f == files[CandidateOrder[i]]
         IN  IF f.kind = "json"
                /\ DOMAIN StringVars(f.config) = {"ANTHROPIC_BASE_URL", "ANTHROPIC_AUTH_TOKEN"}
             THEN <<[vars |-> StringVars(f.config), from |-> i]>>
             ELSE ScanCandidates(files, i + 1)

\* getClaudeEnv(): null (<< >>) when neither HOME nor USERPROFILE is set; from
\* is history, the rank of the file the values were read in
getClaudeEnv(homeVars, files) ==
    IF homeVars = {} THEN << >> ELSE ScanCandidates(files, 1)

\* process.env.X || claudeEnv?.X || ""
EnvOrFile(processValue, claudeEnv, name) ==
    IF processValue # "" THEN processValue
    ELSE IF claudeEnv # << >> /\ name \in DOMAIN claudeEnv[1].vars THEN claudeEnv[1].vars[name]
    ELSE ""

\* the environment of the process: which of HOME and USERPROFILE are set, and
\* the two variables ("" when unset)
HomeVars == {{}, {"HOME"}, {"USERPROFILE"}}
ProcessEnvs == [ANTHROPIC_BASE_URL : {"", "url of env"}, ANTHROPIC_AUTH_TOKEN : {"", "token of env"}]

\* the module-level reading of the configuration
SettingsProbe ==
    /\ probe.kind = "none"
    /\ \E homeVars \in HomeVars, files \in Candidates, env \in ProcessEnvs :
          LET claudeEnv == getClaudeEnv(homeVars, files)
          IN  probe' = [ kind |-> "settings", homeVars |-> homeVars, files |-> files, env |-> env,
                         claudeEnv |-> claudeEnv,
                         baseUrl |-> EnvOrFile(env.ANTHROPIC_BASE_URL, claudeEnv, "ANTHROPIC_BASE_URL"),
                         authToken |-> EnvOrFile(env.ANTHROPIC_AUTH_TOKEN, claudeEnv, "ANTHROPIC_AUTH_TOKEN") ]
    /\ UNCHANGED mainVars

\* renderProgressBar(percent), the width being 10: the numbers of filled and
\* of empty cells, the colour and the percent shown; String.repeat of a
\* negative count throws a RangeError
renderProgressBar(percent) ==
    LET filledWidth == Round10(percent)
        emptyWidth  == 10 - filledWidth
    IN  IF filledWidth < 0 \/ emptyWidth < 0 THEN [thrown |-> "RangeError"]
        ELSE [ filled |-> filledWidth, empty |-> emptyWidth,
               color |-> IF percent >= 85 THEN "red"
                         ELSE IF percent >= 60 THEN "yellow" ELSE "green",
               percent |-> percent ]

SetupText == [text |-> "Setup required"]
LoadingText == [text |-> "Loading..."]

\* the parts of the status line of a snapshot that is not special-cased
DataLine(d, sessionContext) ==
    LET display == IF "model" \in DOMAIN sessionContext
                      /\ "display_name" \in DOMAIN sessionContext.model
                   THEN sessionContext.model.display_name ELSE << >>
        modelName == IF display # << >> THEN mapModelName(display)
                     ELSE IF "modelName" \in DOMAIN d THEN d.modelName ELSE Unknown
        healthPercent == IF "tokenPercent" \in DOMAIN d THEN d.tokenPercent ELSE 0
        healthBar == renderProgressBar(healthPercent)
    IN  IF "thrown" \in DOMAIN healthBar THEN healthBar
        ELSE [ modelName |-> modelName,
               healthBar |-> healthBar,
               tokenStr  |-> healthPercent,
               mcpStr    |-> IF "mcpPercent" \in DOMAIN d THEN d.mcpPercent ELSE 0,
               costStr   |-> IF "totalCost" \in DOMAIN d THEN d.totalCost ELSE ZeroCost ]

\* mutant: only the missing configuration is special-cased
formatOutput_LoadingAsData(data, sessionContext) ==
    IF data = << >> THEN SetupText
    ELSE IF "error" \in DOMAIN data[1] /\ data[1].error = "setup_required" THEN SetupText
    ELSE DataLine(data[1], sessionContext)

\* formatOutput(data, sessionContext); data is << >> for null. What it returns
\* is the placeholder text, or the parts of the line, or the error thrown.
formatOutput(data, sessionContext) ==
    IF data = << >> THEN SetupText
    ELSE IF "error" \in DOMAIN data[1] /\ data[1].error = "setup_required" THEN SetupText
    ELSE IF "error" \in DOMAIN data[1] /\ data[1].error = "loading" THEN LoadingText
    ELSE DataLine(data[1], sessionContext)

STDIN_TIMEOUT == 100    \* ms

StdinStepMs == 50       \* step of the clock while main runs

\* the session contexts Claude Code can send
SessionContexts ==
    { EmptyRec, [model |-> EmptyRec],
      [model |-> [display_name |-> <<"Claude", "Sonnet">>]],
      [model |-> [display_name |-> <<"Haiku">>],
       context_window |-> [context_window_size |-> 200000, total_input_tokens |-> 50000]] }

\* what has been read from stdin: nothing, a text that is not JSON (the
\* beginning of a document included), a JSON document
NoText == [kind |-> "empty"]
StdinTexts == {[kind |-> "invalid"]} \cup {[kind |-> "json", value |-> c] : c \in SessionContexts}

\* the snapshots fetchUsageData can return to main: the two error snapshots,
\* merged or cached data, a cached document without fields, a cached null,
\* and the snapshots merged from a quota answer that reports 120.5 % and
\* -5.0 % of the token limit
MainSnapshots ==
    { <<SetupRequired>>, <<Loading>>, <<CachedSample>>, <<EmptyRec>>, << >>,
      <<[ tokenPercent |-> 72, mcpPercent |-> 40, totalCost |-> ToFixed2Cost(2000000, 1000000),
          modelName |-> <<"GLM-4.7">>, timestamp |-> StartTime,
          nextResetTime |-> ResetToday, nextResetTimeStr |-> formatResetTime(ResetToday, StartTime) ]>>,
      <<MergeSnapshot(
            Resolved(fetchQuota(Resolved([data |-> [limits |->
                        <<[type |-> "TOKENS_LIMIT", percentage |-> 1205]>>]]), StartTime)),
            Resolved(ModelUsageDefault), Resolved(0), StartTime)>>,
      <<MergeSnapshot(
            Resolved(fetchQuota(Resolved([data |-> [limits |->
                        <<[type |-> "TOKENS_LIMIT", percentage |-> -50]>>]]), StartTime)),
            Resolved(ModelUsageDefault), Resolved(0), StartTime)>> }

\* mutant: the timer resolves the read with what has arrived so far
StdinResolve_TimeoutKeepsData(via, buffer) == buffer

\* what the stdin promise resolves with: data on "end", "" from the timer
StdinResolve(via, buffer) == IF via = "end" THEN buffer ELSE NoText

\* if (stdinData) sessionContext = JSON.parse(stdinData), a parse error being
\* caught and ignored
ParseStdin(stdinData) == IF stdinData.kind = "json" THEN stdinData.value ELSE EmptyRec

\* main(): the listeners are attached and the timer of the read is set
MainStart ==
    /\ probe.kind = "none"
    /\ probe' = [ kind |-> "main", stage |-> "stdin", elapsed |-> 0, timer |-> TRUE,
                  buffer |-> NoText, via |-> "none", sessionContext |-> EmptyRec,
                  usageData |-> << >>, out |-> << >> ]
    /\ UNCHANGED mainVars

\* process.stdin.on("data"): data += chunk
StdinData ==
    /\ probe.kind = "main" /\ probe.stage = "stdin"
    /\ probe.buffer.kind # "json"
    /\ \E text \in StdinTexts : probe' = [probe EXCEPT !.buffer = text]
    /\ UNCHANGED mainVars

\* process.stdin.on("end"): resolve(data); main goes on to fetchUsageData()
StdinEnd ==
    /\ probe.kind = "main" /\ probe.stage = "stdin"
    /\ probe' = [probe EXCEPT !.stage = "fetch", !.via = "end",
                              !.sessionContext = ParseStdin(StdinResolve("end", probe.buffer))]
    /\ UNCHANGED mainVars

\* the setTimeout callback of the read: resolve(""), which does nothing when
\* the promise is resolved already
StdinTimeout ==
    /\ probe.kind = "main" /\ probe.timer
    /\ probe.elapsed >= STDIN_TIMEOUT
    /\ probe' = IF probe.stage = "stdin"
                THEN [probe EXCEPT !.timer = FALSE, !.stage = "fetch", !.via = "timeout",
                                   !.sessionContext = ParseStdin(StdinResolve("timeout", probe.buffer))]
                ELSE [probe EXCEPT !.timer = FALSE]
    /\ UNCHANGED mainVars

\* time passes for main, up to the expiry of the timer of the read
StdinElapse ==
    /\ probe.kind = "main" /\ probe.timer
    /\ probe.elapsed < STDIN_TIMEOUT
    /\ probe' = [probe EXCEPT !.elapsed = @ + StdinStepMs]
    /\ UNCHANGED mainVars

\* await fetchUsageData() returns; console.log(formatOutput(usageData, sessionContext))
FetchReturns ==
    /\ probe.kind = "main" /\ probe.stage = "fetch"
    /\ \E usageData \in MainSnapshots :
          probe' = [probe EXCEPT !.stage = "printed", !.usageData = usageData,
                                 !.out = <<formatOutput(usageData, probe.sessionContext)>>]
    /\ UNCHANGED mainVars

\* the call under study is over
ProbeDone ==
    /\ probe.kind # "none"
    /\ probe.kind = "httpsGet" => ~probe.timer
    /\ probe.kind = "main" => probe.stage = "printed" /\ ~probe.timer
    /\ probe' = NoProbe
    /\ UNCHANGED mainVars

PureNext ==
    \/ ResolveProbe
    \/ QuotaProbe
    \/ QuotaFailedProbe
    \/ HttpsGet
    \/ OnEnd
    \/ OnError
    \/ OnTimeout
    \/ Elapse
    \/ ToolProbe
    \/ ModelProbe
    \/ MapProbe
    \/ ResetProbe
    \/ ContextProbe
    \/ SettingsProbe
    \/ UsageProbe
    \/ MainStart
    \/ StdinData
    \/ StdinEnd
    \/ StdinTimeout
    \/ StdinElapse
    \/ FetchReturns
    \/ ProbeDone

PureSpec == PureInit /\ [][PureNext]_vars

----------------------------------------------------------------------------
(* Two invocations of the script at once (two refreshes of the status line *)
(* in quick succession), sharing CACHE_FILE. Between processes the write   *)
(* of saveCache is not one step: fs.writeFileSync opens the file with      *)
(* O_TRUNC, which empties it, and then writes the text at offset 0.        *)

\* the number of decimal digits of n
RECURSIVE Digits(_)
Digits(n) == IF n < 10 THEN 1 ELSE 1 + Digits(n \div 10)

\* the length of a text given as a sequence of tokens
RECURSIVE TextLen(_)
TextLen(tokens) == IF tokens = << >> THEN 0 ELSE Len(Head(tokens)) + TextLen(Tail(tokens))

\* the length of JSON.stringify(value) for the value of property f of a snapshot
ValueLen(f, v) ==
    CASE f = "totalCost" -> 2 + Digits(v.units) + 1 + 2          \* "3.00"
      [] f = "modelName" -> 2 + TextLen(v)                       \* "GLM-4.7"
      [] f = "nextResetTimeStr" -> 2 + (IF v.date = << >> THEN 5 ELSE 11)
      [] f = "error" -> 2 + Len(v)
      [] OTHER -> Digits(v)                                      \* a number

\* the properties a snapshot can have
SnapshotFields ==
    << "tokenPercent", "mcpPercent", "totalCost", "modelName", "timestamp",
       "nextResetTime", "nextResetTimeStr", "error" >>

\* per property of data from the i-th on: its quoted name, a colon, its value
\* and a comma or the closing brace
RECURSIVE MembersLen(_, _)
MembersLen(data, i) ==
    IF i > Len(SnapshotFields) THEN 0
    ELSE LET f == SnapshotFields[i]
         IN  (IF f \in DOMAIN data THEN Len(f) + 3 + ValueLen(f, data[f]) + 1 ELSE 0)
             + MembersLen(data, i + 1)

\* the length of JSON.stringify(data)
JsonLen(data) == 1 + MembersLen(data, 1)

\* the file emptied by open(..., O_TRUNC): reading it gives "", which does
\* not parse
Truncated == [kind |-> "empty"]

\* the content of the file after write(fd, text, 0) of the text of data by a
\* process that opened it before: the text, followed by what the file holds
\* beyond the length of the text
Overlay(f, data) ==
    IF f.kind \in {"empty", "absent"} THEN saveCacheDoc(data)
    ELSE IF f.kind = "json" /\ JsonLen(f.value) <= JsonLen(data) THEN saveCacheDoc(data)
    ELSE Garbage

Init2 ==
    /\ InitFor({1, 2})
    /\ file = Absent

\* the continuation of await Promise.allSettled([...]) up to the open of
\* fs.writeFileSync in saveCache
JoinOpen(p) ==
    /\ pc[p] = "fetching"
    /\ AllSettled(req[p])
    /\ file' = Truncated
    /\ origin' = [by |-> "open"]
    /\ log' = [log EXCEPT ![p] = Append(@, "saveCache")]
    /\ pc' = [pc EXCEPT ![p] = "saving"]
    /\ UNCHANGED <<now, calls, cfg, req, result, seen, probe>>

\* the write of fs.writeFileSync, and the return of fetchUsageData
JoinWrite(p) ==
    /\ pc[p] = "saving"
    /\ LET snapshot == MergeSnapshot(Outcome(req[p]["quota"]), Outcome(req[p]["model"]),
                                     Outcome(req[p]["tool"]), now)
       IN  /\ file' = Overlay(file, snapshot)
           /\ origin' = [by |-> "live", snap |-> snapshot]
           /\ result' = [result EXCEPT ![p] = <<snapshot>>]
    /\ log' = [log EXCEPT ![p] = @ \o <<"written", "return">>]
    /\ pc' = [pc EXCEPT ![p] = "done"]
    /\ UNCHANGED <<now, calls, cfg, req, seen, probe>>

\* the two invocations within one step of the clock: the answers arrive well
\* before the timers of the requests expire
Next2 ==
    \/ \E p \in Procs : Launch(p)
    \/ \E p \in Procs : FetchUsageData(p)
    \/ \E p \in Procs, e \in Endpoints : Respond(p, e)
    \/ \E p \in Procs : JoinOpen(p)
    \/ \E p \in Procs : JoinWrite(p)
    \/ \E p \in Procs : Exit(p)

Spec2 == Init2 /\ [][Next2]_vars

----------------------------------------------------------------------------
(* Vocabulary of the properties *)

Events(p) == Range(log[p])

Called(p) == seen[p] # << >>
Requested(p) == \E e \in Endpoints : ("request " \o e) \in Events(p)
Returned(p) == "return" \in Events(p)
CacheHit(p) == "cache hit" \in Events(p)
LiveDone(p) == pc[p] = "done" /\ "saveCache" \in Events(p)

\* the position of event ev in the log of p (0 when it is not there)
Pos(p, ev) ==
    IF ev \in Events(p) THEN CHOOSE i \in DOMAIN log[p] : log[p][i] = ev ELSE 0

\* the cache file is as an earlier live aggregation left it, and the call of p
\* has not written it
FileFromEarlierLive(p) ==
    /\ origin.by = "live"
    /\ file = Json(origin.snap)
    /\ "saveCache" \notin Events(p)

----------------------------------------------------------------------------
(* C1: a fetchUsageData call that starts less than 5000 ms after a live     *)
(* aggregation wrote the cache (no other write in between) returns the     *)
(* snapshot of that aggregation and issues no HTTP request.                *)
C1_FreshCacheIsServed ==
    \A p \in Procs :
        ( /\ Called(p)
          /\ FileFromEarlierLive(p)
          /\ seen[p][1].at - origin.snap.timestamp < CACHE_DURATION )
        => /\ result[p] = <<origin.snap>>
           /\ ~Requested(p)

(* C2: after a successful saveCache(s) the cache file holds a document of  *)
(* the shape {data, timestamp}; loadCache gives e with e.data = s and      *)
(* e.timestamp = the time of the aggregation.                              *)
C2_CacheRoundTrip ==
    \A p \in Procs :
        (pc[p] = "done" /\ "written" \in Events(p))
        => LET e == loadCache(file)
           IN  /\ e # << >>
               /\ DOMAIN e[1] = {"data", "timestamp"}
               /\ e[1].data = result[p][1]
               /\ e[1].timestamp = result[p][1].timestamp

(* C3: isCacheValid(entry) is true exactly when the entry has a timestamp  *)
(* T with 0 <= now - T < 5000; false for an entry stamped in the future.   *)
C3_ValidIffAgeInWindow ==
    \A p \in Procs :
        Called(p) =>
            LET c == seen[p][1]
            IN  c.valid <=> ( /\ c.stamp # << >>
                              /\ 0 <= c.at - c.stamp[1]
                              /\ c.at - c.stamp[1] < CACHE_DURATION )

(* C4: in one call the cache check comes before any HTTP request, and a    *)
(* call either returns the cached snapshot or issues requests, never both. *)
C4_CacheCheckFirstAndExclusive ==
    \A p \in Procs :
        /\ log[p] # << >> => log[p][1] = "loadCache"
        /\ \A e \in Endpoints :
              ("request " \o e) \in Events(p) => Pos(p, "loadCache") < Pos(p, "request " \o e)
        /\ ~(CacheHit(p) /\ Requested(p))
        /\ (CacheHit(p) /\ Returned(p)) => /\ "saveCache" \notin Events(p)
                                           /\ \A e \in Endpoints : req[p][e].st = "none"

\* a call returned the snapshot of the cache file without any request
C4_Witness ==
    \E p \in Procs :
        /\ pc[p] = "done"
        /\ CacheHit(p)
        /\ result[p] = <<CachedSample>>
        /\ ~Requested(p)

(* C5: without a valid cache, a call whose auth token is empty, whose base *)
(* URL is empty or whose base URL is on an unsupported domain returns the  *)
(* setup_required snapshot with zero placeholders and issues no request.   *)
C5_SetupRequiredWithoutConfig ==
    \A p \in Procs :
        ( /\ Called(p)
          /\ ~seen[p][1].valid
          /\ \/ cfg[p][1].authToken = << >>
             \/ cfg[p][1].baseUrl = EmptyUrl
             \/ cfg[p][1].baseUrl.host = <<"example.com">> )
        => /\ pc[p] = "done"
           /\ result[p] # << >>
           /\ DOMAIN result[p][1] = {"error", "modelName", "tokenPercent", "mcpPercent", "totalCost"}
           /\ result[p][1].error = "setup_required"
           /\ result[p][1].tokenPercent = 0
           /\ result[p][1].mcpPercent = 0
           /\ result[p][1].totalCost = [units |-> 0, cents |-> <<0, 0>>]
           /\ ~Requested(p)
           /\ \A e \in Endpoints : req[p][e].st = "none"

\* the unsupported domain, with a token, ended in setup_required
C5_Witness ==
    \E p \in Procs :
        /\ pc[p] = "done"
        /\ cfg[p][1].authToken # << >>
        /\ cfg[p][1].baseUrl.host = <<"example.com">>
        /\ ~seen[p][1].valid
        /\ result[p] # << >> /\ "error" \in DOMAIN result[p][1]
        /\ result[p][1].error = "setup_required"

----------------------------------------------------------------------------
(* What the sample answers of the endpoints amount to (see QuotaBodies,    *)
(* ModelBodies, ToolBodies): 72.4 % of the token limit, 40 % of the time   *)
(* limit, 500000 input and 100000 output tokens of an Opus model, 4 rows   *)
(* of tool usage.                                                          *)

Failed(p) == {e \in Endpoints : req[p][e].failed}

ExpTokenPercent(F) == IF "quota" \in F THEN 0 ELSE 72
ExpMcpPercent(F) == IF "tool" \notin F THEN 20 ELSE IF "quota" \notin F THEN 40 ELSE 0
ExpTotalCost(F) == IF "model" \in F THEN [units |-> 0, cents |-> <<0, 0>>]
                   ELSE [units |-> 3, cents |-> <<0, 0>>]
ExpModelName(F) == IF "model" \in F THEN <<"Unknown">> ELSE <<"GLM-4.7">>

\* "23:00" and "01/01 23:00"
ResetSameDay == [date |-> << >>, time |-> <<(<<2, 3>>), (<<0, 0>>)>>]
ResetOtherDay == [date |-> <<(<<0, 1>>), (<<0, 1>>)>>, time |-> <<(<<2, 3>>), (<<0, 0>>)>>]

\* the five fields of a live snapshot that do not depend on the clock
ExpFields(r, F) ==
    /\ "error" \notin DOMAIN r
    /\ r.tokenPercent = ExpTokenPercent(F)
    /\ r.mcpPercent = ExpMcpPercent(F)
    /\ r.totalCost = ExpTotalCost(F)
    /\ r.modelName = ExpModelName(F)
    /\ IF "quota" \in F
       THEN "nextResetTime" \notin DOMAIN r /\ "nextResetTimeStr" \notin DOMAIN r
       ELSE "nextResetTime" \in DOMAIN r /\ r.nextResetTime = ResetToday
            /\ "nextResetTimeStr" \in DOMAIN r

(* C6: when exactly one of the three fetches fails, the snapshot has no    *)
(* error field, the defaults for the fields of that fetch only, and for    *)
(* the other two the values they give when all three succeed.              *)
C6_PartialFailureIndependence ==
    \A p \in Procs :
        (LiveDone(p) /\ Cardinality(Failed(p)) = 1)
        => LET r == result[p][1]
           IN  /\ "error" \notin DOMAIN r
               /\ Failed(p) = {"quota"} =>
                     /\ r.tokenPercent = 0 /\ r.mcpPercent = 20
                     /\ "nextResetTime" \notin DOMAIN r
                     /\ r.totalCost = [units |-> 3, cents |-> <<0, 0>>]
                     /\ r.modelName = <<"GLM-4.7">>
               /\ Failed(p) = {"model"} =>
                     /\ r.totalCost = [units |-> 0, cents |-> <<0, 0>>]
                     /\ r.modelName = <<"Unknown">>
                     /\ r.tokenPercent = 72 /\ r.mcpPercent = 20
                     /\ r.nextResetTime = ResetToday
               /\ Failed(p) = {"tool"} =>
                     /\ r.mcpPercent = 40
                     /\ r.tokenPercent = 72
                     /\ r.nextResetTime = ResetToday
                     /\ r.totalCost = [units |-> 3, cents |-> <<0, 0>>]
                     /\ r.modelName = <<"GLM-4.7">>

\* the model-usage fetch alone failed and the call returned
C6_Witness ==
    \E p \in Procs :
        /\ LiveDone(p)
        /\ Failed(p) = {"model"}
        /\ result[p][1].modelName = <<"Unknown">>
        /\ result[p][1].tokenPercent = 72

(* C7: on the live path the call neither returns nor writes the cache      *)
(* before all three fetches have settled.                                  *)
C7_JoinAll ==
    \A p \in Procs :
        Requested(p) =>
            /\ pc[p] = "fetching" =>
                  /\ result[p] = << >>
                  /\ "saveCache" \notin Events(p)
                  /\ "return" \notin Events(p)
            /\ (result[p] # << >> \/ "saveCache" \in Events(p) \/ Returned(p)) =>
                  \A e \in Endpoints :
                      /\ req[p][e].st = "settled"
                      /\ ("settle " \o e) \in Events(p)
                      /\ Pos(p, "settle " \o e) < Pos(p, "saveCache")
                      /\ Pos(p, "saveCache") < Pos(p, "return")

\* two fetches have settled, the third has not, and the call is still waiting
C7_Witness ==
    \E p \in Procs :
        /\ pc[p] = "fetching"
        /\ Cardinality({e \in Endpoints : req[p][e].st = "settled"}) = 2
        /\ result[p] = << >>

(* C8: the mcpPercent of a live snapshot is the tool-usage percent when    *)
(* that is strictly positive, else the TIME_LIMIT percent of the quota     *)
(* (40 and 20 give 20; 40 and 0 give 40).                                  *)
C8_MergePrecedence ==
    \A p \in Procs :
        LiveDone(p) =>
            LET tool == Outcome(req[p]["tool"]).value
                quotaMcp == Outcome(req[p]["quota"]).value.mcpPercent
                r == result[p][1]
            IN  /\ tool > 0 => r.mcpPercent = tool
                /\ tool = 0 => r.mcpPercent = quotaMcp
                /\ (quotaMcp = 40 /\ tool = 20) => r.mcpPercent = 20
                /\ (quotaMcp = 40 /\ tool = 0) => r.mcpPercent = 40

\* quota says 40, tool usage says 20, and the snapshot says 20
C8_Witness ==
    \E p \in Procs :
        /\ LiveDone(p)
        /\ Outcome(req[p]["quota"]).value.mcpPercent = 40
        /\ Outcome(req[p]["tool"]).value = 20
        /\ result[p][1].mcpPercent = 20

(* C9 as stated: for fixed responses the fields tokenPercent, mcpPercent,  *)
(* totalCost, modelName, nextResetTime and nextResetTimeStr of the         *)
(* snapshot are the same for every order of completion.                    *)
C9_SameSnapshotInEveryOrder ==
    \A p \in Procs :
        LiveDone(p) =>
            /\ ExpFields(result[p][1], Failed(p))
            /\ "quota" \notin Failed(p) => result[p][1].nextResetTimeStr = ResetSameDay

(* C9 amended: for fixed responses tokenPercent, mcpPercent, totalCost,    *)
(* modelName and nextResetTime are the same for every order of completion; *)
(* nextResetTimeStr is the same when the call starts and ends on one       *)
(* calendar day, and is otherwise one of the two renderings of             *)
(* nextResetTime, by the day on which the quota fetch completed.           *)
C9_MergeDeterminism ==
    \A p \in Procs :
        LiveDone(p) =>
            LET r == result[p][1]
            IN  /\ ExpFields(r, Failed(p))
                /\ "quota" \notin Failed(p) =>
                      /\ r.nextResetTimeStr \in {ResetSameDay, ResetOtherDay}
                      /\ DayOf(r.timestamp) = DayOf(ResetToday) => r.nextResetTimeStr = ResetSameDay
                      /\ DayOf(seen[p][1].at) # DayOf(ResetToday) => r.nextResetTimeStr = ResetOtherDay

\* all three fetches succeeded, completing in the reverse of the order in
\* which they were started
C9_Witness ==
    \E p \in Procs :
        /\ LiveDone(p)
        /\ Failed(p) = {}
        /\ Pos(p, "settle tool") < Pos(p, "settle model")
        /\ Pos(p, "settle model") < Pos(p, "settle quota")
        /\ result[p][1].mcpPercent = 20

(* C10: whatever the cache, the configuration and the outcome of each     *)
(* endpoint, fetchUsageData ends with a snapshot whose error field is      *)
(* absent, "setup_required" or "loading".                                  *)
C10_OnlyTwoErrorStates ==
    \A p \in Procs :
        /\ pc[p] \in {"idle", "crashed", "main", "fetching", "done"}
        /\ pc[p] = "done" <=> result[p] # << >>
        /\ Called(p) => pc[p] \in {"fetching", "done"}
        /\ result[p] # << >> =>
              \/ "error" \notin DOMAIN result[p][1]
              \/ result[p][1].error \in {"setup_required", "loading"}

\* all three fetches failed and the call returned a snapshot without error
C10_Witness ==
    \E p \in Procs :
        /\ LiveDone(p)
        /\ Failed(p) = Endpoints
        /\ "error" \notin DOMAIN result[p][1]

----------------------------------------------------------------------------
C12_WriteIffLive ==
    \A p \in Procs :
        /\ Count(p, "saveCache") <= 1
        /\ "written" \in Events(p) => "saveCache" \in Events(p)
        /\ pc[p] = "done" =>
              /\ "saveCache" \in Events(p) <=> Requested(p)
              /\ "saveCache" \in Events(p) => "error" \notin DOMAIN result[p][1]
              /\ ("error" \notin DOMAIN result[p][1] /\ ~CacheHit(p)) => "saveCache" \in Events(p)
              /\ "written" \in Events(p) => file = Json(result[p][1])
        /\ file.kind = "json" => "error" \notin DOMAIN file.value
        /\ origin.by = "live" => "error" \notin DOMAIN origin.snap

\* a live aggregation has written its snapshot to the cache file
C12_Witness ==
    \E p \in Procs :
        /\ pc[p] = "done"
        /\ Requested(p)
        /\ "written" \in Events(p)
        /\ file = Json(result[p][1])

(* C13: within one call every endpoint is requested at most once whatever  *)
(* the outcomes; once each on the live path, and not at all when the call  *)
(* ends with a cache hit or with setup_required.                           *)
C13_NoRetries ==
    \A p \in Procs :
        /\ \A e \in Endpoints :
              /\ Count(p, "request " \o e) <= 1
              /\ Count(p, "settle " \o e) <= Count(p, "request " \o e)
              /\ req[p][e].st = "none" <=> Count(p, "request " \o e) = 0
        /\ Requested(p) => \A e \in Endpoints : Count(p, "request " \o e) = 1
        /\ ( pc[p] = "done" /\ \/ CacheHit(p)
                               \/ "error" \in DOMAIN result[p][1] )
           => \A e \in Endpoints : Count(p, "request " \o e) = 0

\* a call in which the quota request got an error answer and the tool-usage
\* request failed is over, each endpoint requested once
C13_Witness ==
    \E p \in Procs :
        /\ LiveDone(p)
        /\ Failed(p) = {"quota", "tool"}
        /\ ~req[p]["quota"].timedOut
        /\ \A e \in Endpoints : Count(p, "request " \o e) = 1

----------------------------------------------------------------------------
\* history: the endpoints of p whose request was ended by its timer
TimedOut(p) == {e \in Endpoints : req[p][e].timedOut}

C17_ResolutionNeverThrows ==
    \A p \in Procs :
        ( /\ cfg[p] # << >>
          /\ \/ UrlIsEmpty(cfg[p][1].baseUrl)
             \/ ~UrlParses(cfg[p][1].baseUrl)
             \/ ~IsSupported(cfg[p][1].baseUrl) )
        => /\ pc[p] # "crashed"
           /\ (Called(p) /\ ~seen[p][1].valid) =>
                 /\ result[p] # << >>
                 /\ "error" \in DOMAIN result[p][1]
                 /\ result[p][1].error = "setup_required"

(* C19: a cache file that is missing, unreadable or not JSON is a cache    *)
(* miss and nothing more (the call goes on to the environment check and    *)
(* the requests); a cache write that fails leaves the returned snapshot    *)
(* as it is when the write succeeds.                                       *)
C19_CacheFailuresAbsorbed ==
    \A p \in Procs :
        /\ ( /\ Called(p)
             /\ "written" \notin Events(p)
             /\ file.kind \in {"absent", "garbage", "unreadable"} )
           => /\ ~seen[p][1].valid
              /\ seen[p][1].stamp = << >>
              /\ ~CacheHit(p)
              /\ pc[p] \in {"fetching", "done"}
              /\ IF ConfigAbsent(cfg[p][1])
                 THEN result[p] = <<SetupRequired>> /\ ~Requested(p)
                 ELSE Requested(p)
        /\ LiveDone(p) =>
              LET r == result[p][1]
              IN  /\ "error" \notin DOMAIN r
                  /\ ExpFields(r, Failed(p))
                  /\ r = MergeSnapshot(Outcome(req[p]["quota"]), Outcome(req[p]["model"]),
                                       Outcome(req[p]["tool"]), r.timestamp)
                  /\ "written" \in Events(p) => file = Json(r)

\* a live aggregation over a cache file that is not JSON returned its
\* snapshot although the cache could not be written
C19_Witness ==
    \E p \in Procs :
        /\ LiveDone(p)
        /\ "written" \notin Events(p)
        /\ file = Garbage
        /\ Failed(p) = {}
        /\ result[p][1].tokenPercent = 72

----------------------------------------------------------------------------
(* C14 (under PureSpec): an httpsGet call whose response ends with status  *)
(* 200 and a JSON body resolves with the parsed body; with another status  *)
(* it fails with the HTTP-status error whatever the body is; with status   *)
(* 200 and a body that is not JSON it fails with the parse error; when     *)
(* nothing has ended at the expiry of the timeout (2000 ms) the request is *)
(* destroyed and the call fails with the timeout error.                    *)
C14_HttpsGetOutcome ==
    probe.kind = "httpsGet" =>
        /\ probe.st = "pending" <=> probe.out = << >>
        /\ probe.st = "pending" => probe.timer /\ ~probe.destroyed
        /\ (probe.st = "settled" /\ probe.got[1].via = "end") =>
              LET statusCode == probe.got[1].statusCode
                  text == probe.got[1].text
              IN  /\ (statusCode = 200 /\ text # << >>) =>
                        probe.out = <<[status |-> "fulfilled", value |-> text[1]]>>
                  /\ statusCode # 200 =>
                        probe.out = <<[status |-> "rejected", reason |-> "HTTP status"]>>
                  /\ (statusCode = 200 /\ text = << >>) =>
                        probe.out = <<[status |-> "rejected", reason |-> "Invalid JSON response"]>>
        /\ (probe.st = "settled" /\ probe.got[1].via = "timeout") =>
              /\ probe.out = <<[status |-> "rejected", reason |-> "Request timeout"]>>
              /\ probe.destroyed
              /\ probe.elapsed >= 2000
        /\ (probe.st = "pending" /\ probe.elapsed >= 2000) => ENABLED OnTimeout

\* an answer with status 500 and a body that is not JSON was turned into the
\* HTTP-status error
C14_Witness ==
    /\ probe.kind = "httpsGet"
    /\ probe.got = <<[via |-> "end", statusCode |-> 500, text |-> << >>]>>
    /\ probe.out = <<[status |-> "rejected", reason |-> "HTTP status"]>>

\* the host of a base URL names one of the supported domains
HostSupported(u) == \E i \in DOMAIN SUPPORTED_DOMAINS : SUPPORTED_DOMAINS[i] \in Range(u.host)

(* C16 (under PureSpec): endpoint resolution succeeds only if the host of  *)
(* the base URL contains a supported domain (a supported domain in the     *)
(* path or the query does not count), and then the three endpoint URLs are *)
(* scheme+host followed by the three fixed paths.                          *)
C16_HostOnAllowList ==
    probe.kind = "resolve" =>
        /\ ~HostSupported(probe.baseUrl) =>
              /\ probe.urls = << >>
              /\ probe.config = << >>
              /\ probe.absent
        /\ probe.urls # << >> =>
              LET base == [scheme |-> probe.baseUrl.scheme, host |-> probe.baseUrl.host]
              IN  /\ probe.urls[1].quotaLimitUrl = [base |-> base, path |-> "/api/monitor/usage/quota/limit"]
                  /\ probe.urls[1].modelUsageUrl = [base |-> base, path |-> "/api/monitor/usage/model-usage"]
                  /\ probe.urls[1].toolUsageUrl = [base |-> base, path |-> "/api/monitor/usage/tool-usage"]

\* the nearest integer of a number of tenths, a half going up
Nearest(tenths) == CHOOSE n \in -1000..1000 : 10 * n - 5 <= tenths /\ tenths < 10 * n + 5

\* the percentage that the last entry of a type stands for (0 without such an
\* entry, or without a percentage in it)
LastPercent(limits, type) ==
    LET at == {i \in DOMAIN limits : limits[i].type = type}
    IN  IF at = {} THEN 0
        ELSE LET last == CHOOSE i \in at : \A j \in at : j <= i
             IN  IF "percentage" \in DOMAIN limits[last] THEN Nearest(limits[last].percentage) ELSE 0

(* C20 (under PureSpec): for every limits list, tokenPercent is the        *)
(* rounded percentage of the last TOKENS_LIMIT entry and the quota's       *)
(* mcpPercent that of the last TIME_LIMIT entry, 0 when there is no such   *)
(* entry or it has no percentage; entries of other types change nothing.   *)
C20_QuotaExtraction ==
    probe.kind = "quota" =>
        /\ probe.out.tokenPercent = LastPercent(probe.limits, "TOKENS_LIMIT")
        /\ probe.out.mcpPercent = LastPercent(probe.limits, "TIME_LIMIT")
        /\ LET known == SelectSeq(probe.limits, LAMBDA l : l.type \in {"TOKENS_LIMIT", "TIME_LIMIT"})
           IN  /\ probe.out.tokenPercent = LastPercent(known, "TOKENS_LIMIT")
               /\ probe.out.mcpPercent = LastPercent(known, "TIME_LIMIT")

\* 72.4 % then 12.5 % of the token limit, then an entry of another type: 13
C20_Witness ==
    /\ probe.kind = "quota"
    /\ Len(probe.limits) = 3
    /\ probe.limits[1] = [type |-> "TOKENS_LIMIT", percentage |-> 724, nextResetTime |-> ResetToday]
    /\ probe.limits[2] = [type |-> "TOKENS_LIMIT", percentage |-> 125]
    /\ probe.limits[3].type = "REQUESTS_LIMIT"
    /\ probe.out.tokenPercent = 13
    /\ probe.out.mcpPercent = 0

----------------------------------------------------------------------------
(* C18 (under Spec2): with two invocations at once the cache file is never *)
(* a mixture: a loadCache gives no entry or the complete snapshot of one   *)
(* invocation, and once both have finished the file holds exactly the      *)
(* snapshot of the write that came last.                                   *)
C18_LastWriterWins ==
    /\ file.kind = "json" => (origin.by = "live" /\ file.value = origin.snap)
    /\ (origin.by = "live" /\ \A p \in Procs : pc[p] # "saving") => file = Json(origin.snap)

----------------------------------------------------------------------------
(* C21 (under PureSpec): for every quota answer the tokenPercent and the   *)
(* mcpPercent that fetchQuota gives are integers from 0 to 100, also when  *)
(* the answer reports a percentage below 0 or above 100.                   *)
C21_PercentInRange ==
    probe.kind = "quota" =>
        /\ probe.out.tokenPercent \in 0..100
        /\ probe.out.mcpPercent \in 0..100

(* C22 (under PureSpec): on an answer of n rows fetchToolUsage gives       *)
(* min(100, 5n) when n >= 1 and 0 when n = 0; it gives 0 on every failure; *)
(* what it gives is an integer from 0 to 100, and 100 as soon as n >= 20.  *)
RowsOf(s) ==
    IF s.status = "fulfilled" /\ "data" \in DOMAIN s.value /\ "list" \in DOMAIN s.value.data
    THEN <<Len(s.value.data.list)>> ELSE << >>

C22_ToolPercent ==
    probe.kind = "tool" =>
        /\ probe.out \in 0..100
        /\ RowsOf(probe.s) = << >> => probe.out = 0
        /\ \A n \in 0..(MaxRows + 1) : RowsOf(probe.s) = <<n>> =>
              /\ n = 0 => probe.out = 0
              /\ n >= 1 /\ 5 * n <= 100 => probe.out = 5 * n
              /\ n >= 20 => probe.out = 100

C22_Witness ==
    /\ probe.kind = "tool"
    /\ RowsOf(probe.s) = <<21>>
    /\ probe.out = 100

(* C23 (under PureSpec): the totalCost fetchModelUsage gives for a         *)
(* non-empty list of rows is the amount (3 * input + 15 * output) /        *)
(* 1,000,000 of the two sums over the rows (a missing count being 0) to    *)
(* the nearest cent with two decimals, whatever the split over the rows:   *)
(* 2,000,000 input and 1,000,000 output tokens cost "21.00".               *)
RECURSIVE TotalOf(_, _, _)
TotalOf(list, field, n) ==
    IF n = 0 THEN 0
    ELSE TotalOf(list, field, n - 1) + (IF field \in DOMAIN list[n] THEN list[n][field] ELSE 0)

CentsOf(cost) == 100 * cost.units + 10 * cost.cents[1] + cost.cents[2]

C23_CostOfSums ==
    probe.kind = "model" =>
        LET sumInput  == TotalOf(probe.list, "inputTokens", Len(probe.list))
            sumOutput == TotalOf(probe.list, "outputTokens", Len(probe.list))
            micro     == 3 * sumInput + 15 * sumOutput
            cost      == probe.out.totalCost
        IN  /\ cost.units >= 0 /\ cost.cents[1] \in 0..9 /\ cost.cents[2] \in 0..9
            /\ 10000 * CentsOf(cost) - 5000 <= micro
            /\ micro < 10000 * CentsOf(cost) + 5000
            /\ sumInput = 2000000 /\ sumOutput = 1000000 => cost = [units |-> 21, cents |-> <<0, 0>>]

C23_Witness ==
    /\ probe.kind = "model"
    /\ Len(probe.list) = 3
    /\ \A i \in 1..3 : "inputTokens" \in DOMAIN probe.list[i]
    /\ TotalOf(probe.list, "inputTokens", 3) = 2000000
    /\ TotalOf(probe.list, "outputTokens", 3) = 1000000
    /\ probe.out.totalCost = [units |-> 21, cents |-> <<0, 0>>]

(* C24 (under PureSpec): mapModelName gives "GLM-4.7" for a name that      *)
(* contains "Opus"; otherwise "GLM-4.7" for one that contains "Sonnet";    *)
(* otherwise "GLM-4.5-Air" for one that contains "Haiku"; every other      *)
(* name, the empty one and one with a marker in another case included, is  *)
(* given back unchanged.                                                   *)
Contains(name, marker) == \E i \in 1..Len(name) : name[i] = marker

C24_MapModelName ==
    probe.kind = "map" =>
        LET name == probe.modelName
        IN  probe.out = IF Contains(name, "Opus") THEN <<"GLM-4.7">>
                        ELSE IF Contains(name, "Sonnet") THEN <<"GLM-4.7">>
                        ELSE IF Contains(name, "Haiku") THEN <<"GLM-4.5-Air">>
                        ELSE name

C24_Witness ==
    /\ probe.kind = "map"
    /\ probe.modelName = <<"Haiku", "Opus">>
    /\ probe.out = <<"GLM-4.7">>

(* C26 (under PureSpec): formatResetTime gives the two-digit hour and      *)
(* minute of the timestamp, alone when the timestamp is on the calendar    *)
(* day of the current time (same year, month and day), and after the       *)
(* two-digit month and day of the timestamp otherwise.                     *)
CalendarOf ==
    (0 :> <<1, 1>>) @@ (1 :> <<1, 2>>) @@ (30 :> <<1, 31>>) @@ (31 :> <<2, 1>>)
    @@ (58 :> <<2, 28>>) @@ (59 :> <<3, 1>>) @@ (364 :> <<12, 31>>)
    @@ (365 :> <<1, 1>>) @@ (396 :> <<2, 1>>)

C26_ResetTimeFormat ==
    probe.kind = "reset" =>
        LET day  == probe.date.day
            rest == probe.date.ofDay
            hh   == rest \div HourMs
            mm   == (rest - hh * HourMs) \div MinuteMs
        IN  /\ probe.out.time = <<Pad2(hh), Pad2(mm)>>
            /\ probe.out.date =
                  IF day = probe.nowDate.day THEN << >>
                  ELSE <<Pad2(CalendarOf[day][1]), Pad2(CalendarOf[day][2])>>

C26_Witness ==
    /\ probe.kind = "reset"
    /\ probe.date.day = 365
    /\ probe.nowDate.day = 0
    /\ probe.out = [date |-> <<Pad2(1), Pad2(1)>>, time |-> <<Pad2(23), Pad2(59)>>]

(* C28 (under PureSpec): what calculateContextUsage gives is a percentage  *)
(* from 0 to 100 for every session context.                                *)
C28_ContextUsageInRange ==
    probe.kind = "context" => probe.out \in 0..100

(* C25 (under PureSpec): for a snapshot whose error field is set, what     *)
(* main prints is a placeholder text and nothing else, no percentage, cost *)
(* or model name: "Setup required" for setup_required and "Loading..."     *)
(* for loading.                                                            *)
C25_ErrorShowsPlaceholderOnly ==
    (probe.kind = "main" /\ probe.stage = "printed" /\ probe.usageData # << >>) =>
        LET d == probe.usageData[1]
        IN  "error" \in DOMAIN d =>
               /\ DOMAIN probe.out[1] = {"text"}
               /\ d.error = "setup_required" => probe.out[1].text = "Setup required"
               /\ d.error = "loading" => probe.out[1].text = "Loading..."

C25_Witness ==
    /\ probe.kind = "main" /\ probe.stage = "printed"
    /\ probe.usageData = <<SetupRequired>>
    /\ "tokenPercent" \in DOMAIN probe.usageData[1]
    /\ probe.sessionContext # EmptyRec
    /\ probe.out = <<[text |-> "Setup required"]>>

(* C27 (under PureSpec): the read of stdin ends when stdin ends or when    *)
(* 100 ms have passed, whichever is first; fetchUsageData is not called    *)
(* before the read has ended; when the read ended by the timer, or with a  *)
(* text that is not valid JSON, the session context is empty, and main     *)
(* goes on to print what formatOutput gives for it.                        *)
C27_StdinRead ==
    probe.kind = "main" =>
        /\ probe.stage = "stdin" =>
              probe.timer /\ probe.via = "none" /\ probe.elapsed < 100 + StdinStepMs
        /\ probe.stage # "stdin" => probe.via \in {"end", "timeout"}
        /\ probe.via = "timeout" =>
              /\ probe.elapsed >= 100
              /\ probe.elapsed < 100 + StdinStepMs
              /\ probe.sessionContext = EmptyRec
        /\ probe.via = "end" =>
              probe.sessionContext =
                  IF probe.buffer.kind = "json" THEN probe.buffer.value ELSE EmptyRec
        /\ probe.stage = "printed" =>
              probe.out = <<formatOutput(probe.usageData, probe.sessionContext)>>

C27_Witness ==
    /\ probe.kind = "main" /\ probe.stage = "printed"
    /\ probe.via = "timeout"
    /\ probe.buffer.kind = "json" /\ probe.buffer.value # EmptyRec
    /\ probe.sessionContext = EmptyRec
    /\ probe.usageData = <<CachedSample>>
    /\ "healthBar" \in DOMAIN probe.out[1]

(* C29 (under PureSpec), as stated: getClaudeEnv gives the values of the   *)
(* first of the three settings files, in the order local, project, home,   *)
(* that defines both variables as strings, and null when no file does; and *)
(* each variable is the value of the process environment when that is not  *)
(* empty, the value of that file otherwise.                                *)
DefinesBoth(f) ==
    /\ f.kind = "json"
    /\ "env" \in DOMAIN f.config
    /\ \A k \in {"ANTHROPIC_BASE_URL", "ANTHROPIC_AUTH_TOKEN"} :
          k \in DOMAIN f.config.env /\ f.config.env[k].type = "string"

FileRank == <<"local", "project", "home">>

\* the rank of the first file that defines both variables, 0 when none does
FirstDefining(files) ==
    IF \E i \in 1..3 : DefinesBoth(files[FileRank[i]])
    THEN CHOOSE i \in 1..3 : /\ DefinesBoth(files[FileRank[i]])
                            /\ \A j \in 1..(i - 1) : ~DefinesBoth(files[FileRank[j]])
    ELSE 0

ReadsFile(i) ==
    LET e == probe.files[FileRank[i]].config.env
    IN  /\ probe.claudeEnv # << >>
        /\ probe.claudeEnv[1].from = i
        /\ probe.claudeEnv[1].vars = [ ANTHROPIC_BASE_URL |-> e.ANTHROPIC_BASE_URL.value,
                                       ANTHROPIC_AUTH_TOKEN |-> e.ANTHROPIC_AUTH_TOKEN.value ]

PerVariablePrecedence ==
    \A k \in {"ANTHROPIC_BASE_URL", "ANTHROPIC_AUTH_TOKEN"} :
        LET got == IF k = "ANTHROPIC_BASE_URL" THEN probe.baseUrl ELSE probe.authToken
        IN  IF probe.env[k] # "" THEN got = probe.env[k]
            ELSE IF probe.claudeEnv # << >> THEN got = probe.claudeEnv[1].vars[k]
            ELSE got = ""

C29_SettingsPrecedence ==
    probe.kind = "settings" =>
        /\ LET i == FirstDefining(probe.files)
           IN  IF i = 0 THEN probe.claudeEnv = << >> ELSE ReadsFile(i)
        /\ PerVariablePrecedence

(* C29 (under PureSpec), amended: when HOME or USERPROFILE is set,         *)
(* getClaudeEnv gives the values of the first of the three settings files  *)
(* that defines both variables as strings, and null when no file does;     *)
(* when neither is set it gives null whatever the files hold; and each     *)
(* variable is the value of the process environment when that is not       *)
(* empty, the value getClaudeEnv gave otherwise.                           *)
C29_SettingsPrecedenceWithHome ==
    probe.kind = "settings" =>
        /\ LET i == FirstDefining(probe.files)
           IN  IF i = 0 \/ probe.homeVars = {} THEN probe.claudeEnv = << >> ELSE ReadsFile(i)
        /\ PerVariablePrecedence

C29_Witness ==
    /\ probe.kind = "settings"
    /\ probe.homeVars = {"USERPROFILE"}
    /\ probe.files.local.kind = "json" /\ DOMAIN StringVars(probe.files.local.config) = {"ANTHROPIC_BASE_URL"}
    /\ probe.files.project.kind = "unparsable"
    /\ DefinesBoth(probe.files.home)
    /\ probe.env = [ANTHROPIC_BASE_URL |-> "url of env", ANTHROPIC_AUTH_TOKEN |-> ""]
    /\ probe.claudeEnv # << >> /\ probe.claudeEnv[1].from = 3
    /\ probe.baseUrl = "url of env"
    /\ probe.authToken = "token of home"

(* C30 (under FairSpec): every call of fetchUsageData returns a snapshot,  *)
(* whatever the three endpoints do, those that never answer included:      *)
(* each request still pending when its timer is due is failed by it, and   *)
(* the join then completes. The call is one whose timers are due within    *)
(* the time the clock covers.                                              *)
C30_Termination ==
    \A p \in {1} :
        (pc[p] = "main" /\ now + REQUEST_TIMEOUT <= EndTime)
            ~> (pc[p] = "done" /\ result[p] # << >>)

C30_Witness ==
    \E p \in Procs :
        /\ pc[p] = "done" /\ result[p] # << >>
        /\ \A e \in Endpoints : req[p][e].timedOut
        /\ "error" \notin DOMAIN result[p][1]

(* C31 (under PureSpec): the modelName of a live snapshot is the mapped    *)
(* model field of the first row of the model-usage list when the fetch     *)
(* gave at least one row and that field is not empty, and "Unknown" when   *)
(* the fetch failed, the list is empty or the first row has no model,      *)
(* whatever the later rows hold; its totalCost is "0.00" exactly when the  *)
(* fetch failed, the list is empty or the cost rounds to zero.             *)
MappedName(name) ==
    IF Contains(name, "Opus") THEN <<"GLM-4.7">>
    ELSE IF Contains(name, "Sonnet") THEN <<"GLM-4.7">>
    ELSE IF Contains(name, "Haiku") THEN <<"GLM-4.5-Air">>
    ELSE name

RowsGiven(s) ==
    IF s.status = "fulfilled" /\ "data" \in DOMAIN s.value /\ "list" \in DOMAIN s.value.data
    THEN s.value.data.list ELSE << >>

C31_ModelNameFromFirstRow ==
    probe.kind = "usage" =>
        LET rows  == RowsGiven(probe.s)
            named == rows # << >> /\ "model" \in DOMAIN rows[1] /\ rows[1].model # << >>
            micro == 3 * TotalOf(rows, "inputTokens", Len(rows))
                     + 15 * TotalOf(rows, "outputTokens", Len(rows))
        IN  /\ probe.snapshot.modelName = IF named THEN MappedName(rows[1].model) ELSE <<"Unknown">>
            /\ probe.snapshot.totalCost = [units |-> 0, cents |-> <<0, 0>>]
                  <=> (rows = << >> \/ micro < 5000)

C31_Witness ==
    /\ probe.kind = "usage"
    /\ Len(RowsGiven(probe.s)) = 2
    /\ "model" \notin DOMAIN RowsGiven(probe.s)[1]
    /\ "model" \in DOMAIN RowsGiven(probe.s)[2] /\ RowsGiven(probe.s)[2].model = <<"Claude", "Opus">>
    /\ probe.snapshot.modelName = <<"Unknown">>
    /\ probe.snapshot.totalCost # [units |-> 0, cents |-> <<0, 0>>]

(* C32: in a live aggregation the model-usage request and the tool-usage   *)
(* request carry the same startTime and endTime, endTime being the time at *)
(* which the aggregation started and startTime the time five hours before  *)
(* it, and the quota request carries no query.                             *)
StampOf(ms) ==
    LET day == ms \div 86400000
        rest == ms - day * 86400000
        hh == rest \div 3600000
        mm == (rest - hh * 3600000) \div 60000
        ss == (rest - hh * 3600000 - mm * 60000) \div 1000
    IN  [ year |-> 1970, month |-> Pad2(CalendarOf[day][1]), day |-> Pad2(CalendarOf[day][2]),
          hours |-> Pad2(hh), minutes |-> Pad2(mm), seconds |-> Pad2(ss) ]

C32_TimeWindow ==
    \A p \in Procs :
        (pc[p] \in {"fetching", "done"} /\ Requested(p)) =>
            /\ req[p]["quota"].query = << >>
            /\ req[p]["model"].query = req[p]["tool"].query
            /\ req[p]["model"].query =
                  << [ startTime |-> StampOf(seen[p][1].at - 18000000),
                       endTime   |-> StampOf(seen[p][1].at) ] >>

C32_Witness ==
    \E p \in Procs :
        /\ pc[p] = "done" /\ Requested(p)
        /\ seen[p][1].at >= DayMs
        /\ req[p]["tool"].query[1].endTime.day = Pad2(2)
        /\ req[p]["tool"].query[1].startTime.day = Pad2(1)
        /\ req[p]["tool"].query[1].startTime.hours = Pad2(19)

(* C33 (under PureSpec): the nextResetTime of a live snapshot is that of   *)
(* the last TOKENS_LIMIT entry of the quota list: absent when that entry   *)
(* has none, even if an earlier one had, and never taken from a TIME_LIMIT *)
(* entry; nextResetTimeStr is present exactly when nextResetTime is        *)
(* present and not zero; both are absent when the quota fetch failed.      *)
LastTokensEntry(limits) ==
    LET at == {i \in DOMAIN limits : limits[i].type = "TOKENS_LIMIT"}
    IN  IF at = {} THEN << >>
        ELSE <<limits[CHOOSE i \in at : \A j \in at : j <= i]>>

C33_ResetTimeOfLastTokensEntry ==
    /\ probe.kind = "quota" =>
          LET last == LastTokensEntry(probe.limits)
              has  == last # << >> /\ "nextResetTime" \in DOMAIN last[1]
              snap == probe.snapshot
          IN  /\ "nextResetTime" \in DOMAIN snap <=> has
              /\ has => snap.nextResetTime = last[1].nextResetTime
              /\ "nextResetTimeStr" \in DOMAIN snap <=> (has /\ last[1].nextResetTime # 0)
    /\ probe.kind = "quotaFailed" =>
          /\ "nextResetTime" \notin DOMAIN probe.snapshot
          /\ "nextResetTimeStr" \notin DOMAIN probe.snapshot

C33_Witness ==
    /\ probe.kind = "quota"
    /\ Len(probe.limits) = 3
    /\ probe.limits[1] = [type |-> "TOKENS_LIMIT", percentage |-> 724, nextResetTime |-> ResetToday]
    /\ probe.limits[2] = [type |-> "TOKENS_LIMIT", percentage |-> 125]
    /\ probe.limits[3] = [type |-> "TIME_LIMIT", percentage |-> 400, nextResetTime |-> DayMs + HourMs]
    /\ "nextResetTime" \notin DOMAIN probe.snapshot
    /\ probe.snapshot.tokenPercent = 13

(* C34: whatever the three fetches do (answer, network error, timeout,     *)
(* status other than 200, text that is not JSON, answer without the        *)
(* expected fields) and in whatever order they settle, fetchUsageData      *)
(* never returns the "loading" snapshot, and the snapshot of a live        *)
(* aggregation has no error field.                                         *)
C34_NeverLoading ==
    \A p \in Procs :
        result[p] # << >> =>
            /\ result[p][1] # [error |-> "loading"]
            /\ Requested(p) => "error" \notin DOMAIN result[p][1]

C34_Witness ==
    \E p \in Procs :
        /\ pc[p] = "done" /\ Requested(p)
        /\ Failed(p) = Endpoints
        /\ TimedOut(p) = {"quota"}
        /\ log[p][5] = "settle tool"
        /\ "error" \notin DOMAIN result[p][1]

(* C35: a step of fetchUsageData that ends the call on a cache hit, on     *)
(* setup_required or on loading leaves the cache file as it was, timestamp *)
(* included; a hit is therefore always on an entry whose timestamp is less *)
(* than 5000 ms before the time of the call.                               *)
C35_ReturnsWithoutWrite ==
    [][ \A p \in Procs :
          /\ (pc[p] = "main" /\ pc'[p] = "done") =>
                /\ file' = file
                /\ CacheHit(p)' =>
                      /\ seen'[p][1].stamp # << >>
                      /\ seen'[p][1].at - seen'[p][1].stamp[1] < 5000
          /\ (pc[p] = "fetching" /\ pc'[p] = "done" /\ "error" \in DOMAIN result'[p][1]) =>
                file' = file ]_vars

C35_Witness ==
    \E p \in Procs :
        /\ pc[p] = "done" /\ CacheHit(p)
        /\ calls = 2
        /\ seen[p][1].at = StartTime + TickMs
        /\ file = Json([data |-> CachedSample, timestamp |-> StartTime])
        /\ result[p] = <<CachedSample>>

(* C36 (under PureSpec): an httpsGet call settles once: the first of the   *)
(* events response end, request error and timer expiry fixes its outcome,  *)
(* and an event that comes later (the timer after a complete response, an  *)
(* error after the timeout, a response end after the timeout) changes      *)
(* neither the outcome nor the value its helper gave to the merge.         *)
C36_SettlesOnce ==
    [][ (probe.kind = "httpsGet" /\ probe.st = "settled" /\ probe'.kind = "httpsGet") =>
            /\ probe'.st = "settled"
            /\ probe'.got = probe.got
            /\ probe'.out = probe.out
            /\ probe'.helped = probe.helped ]_vars

C36_Witness ==
    /\ probe.kind = "httpsGet"
    /\ probe.got = <<[via |-> "timeout"]>>
    /\ probe.later = <<"error", "end">>
    /\ probe.out = <<[status |-> "rejected", reason |-> "Request timeout"]>>
    /\ probe.helped = <<0>>

(* C37: a live aggregation whose three fetches all fail still makes its    *)
(* snapshot of defaults (tokenPercent 0, mcpPercent 0, totalCost "0.00",   *)
(* modelName "Unknown", a timestamp, no error), calls saveCache with it,   *)
(* and, when the write succeeds, the cache file holds that snapshot.       *)
C37_AllFailedIsSaved ==
    \A p \in Procs :
        (pc[p] = "done" /\ Requested(p) /\ Failed(p) = Endpoints) =>
            /\ result[p] # << >>
            /\ DOMAIN result[p][1] = {"tokenPercent", "mcpPercent", "totalCost", "modelName", "timestamp"}
            /\ result[p][1].tokenPercent = 0
            /\ result[p][1].mcpPercent = 0
            /\ result[p][1].totalCost = [units |-> 0, cents |-> <<0, 0>>]
            /\ result[p][1].modelName = <<"Unknown">>
            /\ result[p][1].timestamp \in seen[p][1].at .. now
            /\ "saveCache" \in Events(p)
            /\ "written" \in Events(p) => (file.kind = "json" /\ file.value = result[p][1])

C37_Witness ==
    \E p \in Procs :
        /\ pc[p] = "done" /\ Requested(p)
        /\ Failed(p) = Endpoints
        /\ TimedOut(p) = {}
        /\ "written" \in Events(p)
        /\ file.kind = "json" /\ file.value = result[p][1]
        /\ result[p][1].modelName = <<"Unknown">>

(* C38 (under PureSpec): for every snapshot fetchUsageData can return and  *)
(* every session context, formatOutput returns its text without throwing,  *)
(* the bar it draws having filled and empty cell counts that are not       *)
(* negative and add up to the width of 10.                                 *)
C38_FormatOutputNeverThrows ==
    (probe.kind = "main" /\ probe.stage = "printed") =>
        /\ "thrown" \notin DOMAIN probe.out[1]
        /\ "healthBar" \in DOMAIN probe.out[1] =>
              /\ probe.out[1].healthBar.filled >= 0
              /\ probe.out[1].healthBar.empty >= 0
              /\ probe.out[1].healthBar.filled + probe.out[1].healthBar.empty = 10

(* C39: a call of fetchUsageData made while the cache entry is valid       *)
(* returns the snapshot of that entry, unchanged and without any request,  *)
(* whatever the configuration of the invocation is (token and base URL     *)
(* present, absent or unsupported); setup_required is returned only by a   *)
(* call made while there is no valid entry.                                *)
EntrySnapshot ==
    IF "data" \in DOMAIN file.value THEN file.value.data ELSE file.value

C39_CacheHitIgnoresConfig ==
    \A p \in Procs :
        (pc[p] = "done" /\ Called(p)) =>
            /\ seen[p][1].valid =>
                  /\ ~Requested(p)
                  /\ file.kind = "json"
                  /\ result[p] = <<EntrySnapshot>>
            /\ result[p] = <<SetupRequired>> => ~seen[p][1].valid

====
